---- MODULE Spec2Model ----
(***************************************************************************)
(* Delta Brief: the self-correcting brief generation pipeline.             *)
(*                                                                         *)
(* generateBrief (retry-loop version) calls the generation service,        *)
(* extracts moves / structured data / memory highlights from the returned  *)
(* markdown, runs the validation gates and retries with feedback.  The     *)
(* similarity scorer (checkNoRepeats) is modelled character by character.  *)
(*                                                                         *)
(* A text is a sequence of one-character strings.  A markdown document is  *)
(* a sequence of lines; each line is a record whose kind says which of the *)
(* extractor's patterns the line matches.                                  *)
(***************************************************************************)
EXTENDS FiniteSets, Integers, Sequences, TLC

\* ------------------------------------------------------------------------
\* Characters and the texts used as inputs
\* ------------------------------------------------------------------------

UpperChars ==
    <<"A","B","C","D","E","F","G","H","I","J","K","L","M",
      "N","O","P","Q","R","S","T","U","V","W","X","Y","Z">>

LowerChars ==
    <<"a","b","c","d","e","f","g","h","i","j","k","l","m",
      "n","o","p","q","r","s","t","u","v","w","x","y","z">>

DigitChars == <<"0","1","2","3","4","5","6","7","8","9">>

WhitespaceChars == {" ", "\n", "\t"}

Range(s) == {s[i] : i \in DOMAIN s}

\* "Legal gating: model risk assessment required"
T_LegalGating ==
    <<"L", "e", "g", "a", "l", " ", "g", "a", "t", "i", "n", "g", ":", " ", "m", "o", "d", "e", "l", " ", "r", "i", "s", "k", " ", "a", "s", "s", "e", "s", "s", "m", "e", "n", "t", " ", "r", "e", "q", "u", "i", "r", "e", "d">>

\* "Legal requires model risk review before pilot"
T_LegalReview ==
    <<"L", "e", "g", "a", "l", " ", "r", "e", "q", "u", "i", "r", "e", "s", " ", "m", "o", "d", "e", "l", " ", "r", "i", "s", "k", " ", "r", "e", "v", "i", "e", "w", " ", "b", "e", "f", "o", "r", "e", " ", "p", "i", "l", "o", "t">>

\* "The quick brown fox jumps"
T_FoxJumps ==
    <<"T", "h", "e", " ", "q", "u", "i", "c", "k", " ", "b", "r", "o", "w", "n", " ", "f", "o", "x", " ", "j", "u", "m", "p", "s">>

\* "Quick brown fox jumping"
T_FoxJumping ==
    <<"Q", "u", "i", "c", "k", " ", "b", "r", "o", "w", "n", " ", "f", "o", "x", " ", "j", "u", "m", "p", "i", "n", "g">>

\* "The"
T_The ==
    <<"T", "h", "e">>

\* "of a"
T_OfA ==
    <<"o", "f", " ", "a">>

\* "Kings"
T_Kings ==
    <<"K", "i", "n", "g", "s">>

\* "risk"
T_Risk ==
    <<"r", "i", "s", "k">>

\* "scope"
T_Scope ==
    <<"s", "c", "o", "p", "e">>

\* "Risk scope"
T_RiskScope ==
    <<"R", "i", "s", "k", " ", "s", "c", "o", "p", "e">>

\* "Vendor audit delay block pilot launch date"
T_LaunchDate ==
    <<"V", "e", "n", "d", "o", "r", " ", "a", "u", "d", "i", "t", " ", "d", "e", "l", "a", "y", " ", "b", "l", "o", "c", "k", " ", "p", "i", "l", "o", "t", " ", "l", "a", "u", "n", "c", "h", " ", "d", "a", "t", "e">>

\* "Vendor audit delay block pilot review date"
T_ReviewDate ==
    <<"V", "e", "n", "d", "o", "r", " ", "a", "u", "d", "i", "t", " ", "d", "e", "l", "a", "y", " ", "b", "l", "o", "c", "k", " ", "p", "i", "l", "o", "t", " ", "r", "e", "v", "i", "e", "w", " ", "d", "a", "t", "e">>

\* "Vendor audit delay block"
T_AuditBlock ==
    <<"V", "e", "n", "d", "o", "r", " ", "a", "u", "d", "i", "t", " ", "d", "e", "l", "a", "y", " ", "b", "l", "o", "c", "k">>

\* "Pilot timeline forces narrower MVP scope"
T_PilotTimeline ==
    <<"P", "i", "l", "o", "t", " ", "t", "i", "m", "e", "l", "i", "n", "e", " ", "f", "o", "r", "c", "e", "s", " ", "n", "a", "r", "r", "o", "w", "e", "r", " ", "M", "V", "P", " ", "s", "c", "o", "p", "e">>

\* "Vendor audit delayed"
T_VendorAudit ==
    <<"V", "e", "n", "d", "o", "r", " ", "a", "u", "d", "i", "t", " ", "d", "e", "l", "a", "y", "e", "d">>

\* "Budget freeze hits hiring"
T_BudgetFreeze ==
    <<"B", "u", "d", "g", "e", "t", " ", "f", "r", "e", "e", "z", "e", " ", "h", "i", "t", "s", " ", "h", "i", "r", "i", "n", "g">>

\* "Board asks for pilot metrics"
T_BoardAsks ==
    <<"B", "o", "a", "r", "d", " ", "a", "s", "k", "s", " ", "f", "o", "r", " ", "p", "i", "l", "o", "t", " ", "m", "e", "t", "r", "i", "c", "s">>

\* "Porter Five Forces"
F_Porter ==
    <<"P", "o", "r", "t", "e", "r", " ", "F", "i", "v", "e", " ", "F", "o", "r", "c", "e", "s">>

\* "SWOT"
F_Swot ==
    <<"S", "W", "O", "T">>

\* "Blue Ocean"
F_BlueOcean ==
    <<"B", "l", "u", "e", " ", "O", "c", "e", "a", "n">>

\* " (Framework: "
S_FrameworkOpen ==
    <<" ", "(", "F", "r", "a", "m", "e", "w", "o", "r", "k", ":", " ">>

\* ")"
S_FrameworkClose ==
    <<")">>

\* "Risk 1: "
S_RiskPrefix ==
    <<"R", "i", "s", "k", " ", "1", ":", " ">>

\* " - Mitigation: none"
S_MitigationSuffix ==
    <<" ", "-", " ", "M", "i", "t", "i", "g", "a", "t", "i", "o", "n", ":", " ", "n", "o", "n", "e">>

\* "Action: "
S_ActionPrefix ==
    <<"A", "c", "t", "i", "o", "n", ":", " ">>

\* "Open Thread Update: Previously: "
S_UpdatePrefix ==
    <<"O", "p", "e", "n", " ", "T", "h", "r", "e", "a", "d", " ", "U", "p", "d", "a", "t", "e", ":", " ", "P", "r", "e", "v", "i", "o", "u", "s", "l", "y", ":", " ">>

\* " -> Now: "
S_NowArrow ==
    <<" ", "-", ">", " ", "N", "o", "w", ":", " ">>

\* " -> Update: "
S_UpdateArrow ==
    <<" ", "-", ">", " ", "U", "p", "d", "a", "t", "e", ":", " ">>

\* "old plan"
X_OldPlan ==
    <<"o", "l", "d", " ", "p", "l", "a", "n">>

\* "new reality"
X_NewReality ==
    <<"n", "e", "w", " ", "r", "e", "a", "l", "i", "t", "y">>

\* "new plan"
X_NewPlan ==
    <<"n", "e", "w", " ", "p", "l", "a", "n">>

\* "legal gate"
X_Chip1 ==
    <<"l", "e", "g", "a", "l", " ", "g", "a", "t", "e">>

\* "pilot date"
X_Chip2 ==
    <<"p", "i", "l", "o", "t", " ", "d", "a", "t", "e">>

\* "budget cap"
X_Chip3 ==
    <<"b", "u", "d", "g", "e", "t", " ", "c", "a", "p">>

\* "vendor slips"
X_Risk ==
    <<"v", "e", "n", "d", "o", "r", " ", "s", "l", "i", "p", "s">>

\* "email legal"
X_Action ==
    <<"e", "m", "a", "i", "l", " ", "l", "e", "g", "a", "l">>

\* ------------------------------------------------------------------------
\* similarity.ts
\* ------------------------------------------------------------------------

\* the text "ab" as a sequence of characters, for the short literals below
\* the stopword set without the article "the"
STOPWORDS_NoArticle ==
    { <<"a">>, <<"a","n">>, <<"t","o">>, <<"o","f">>,
      <<"f","o","r">>, <<"a","n","d">>, <<"i","n">>, <<"o","n">>,
      <<"w","i","t","h">>, <<"b","y">> }

STOPWORDS ==
    { <<"t","h","e">>, <<"a">>, <<"a","n">>, <<"t","o">>, <<"o","f">>,
      <<"f","o","r">>, <<"a","n","d">>, <<"i","n">>, <<"o","n">>,
      <<"w","i","t","h">>, <<"b","y">> }

\* the lower-case letter of every upper-case letter
LowerOf ==
    [c \in Range(UpperChars) |->
        LowerChars[CHOOSE i \in DOMAIN UpperChars : UpperChars[i] = c]]

\* String.prototype.toLowerCase, one character
toLowerCase(c) == IF c \in DOMAIN LowerOf THEN LowerOf[c] ELSE c

\* the characters /[^a-z0-9\s]/ does not match
KeptChars == Range(LowerChars) \cup Range(DigitChars) \cup WhitespaceChars

\* .replace(/[^a-z0-9\s]/g, ' '), one character
replaceNonAlnum(c) == IF c \in KeptChars THEN c ELSE " "

\* .split(/\s+/).filter(t => t.length > 0): the maximal runs of
\* non-whitespace characters of s, in order
splitWs(s) ==
    LET isStart(i) == /\ s[i] \notin WhitespaceChars
                      /\ (i = 1 \/ s[i - 1] \in WhitespaceChars)
        isEnd(j)   == /\ s[j] \notin WhitespaceChars
                      /\ (j = Len(s) \/ s[j + 1] \in WhitespaceChars)
        starts == {i \in DOMAIN s : isStart(i)}
        ends   == {j \in DOMAIN s : isEnd(j)}
        nth(S, n) == CHOOSE x \in S : Cardinality({y \in S : y < x}) = n - 1
    IN  [n \in 1..Cardinality(starts) |-> SubSeq(s, nth(starts, n), nth(ends, n))]

endsWith(t, suf) ==
    /\ Len(t) >= Len(suf)
    /\ SubSeq(t, Len(t) - Len(suf) + 1, Len(t)) = suf

\* suffix stripping without the "ing" rule
stripSuffix_NoIng(t) ==
    IF endsWith(t, <<"e","d">>) THEN SubSeq(t, 1, Len(t) - 2)
    ELSE IF endsWith(t, <<"s">>) /\ ~endsWith(t, <<"s","s">>)
         THEN SubSeq(t, 1, Len(t) - 1)
    ELSE t

\* the crude suffix stripping of normalizeTokens
stripSuffix(t) ==
    IF endsWith(t, <<"i","n","g">>) THEN SubSeq(t, 1, Len(t) - 3)
    ELSE IF endsWith(t, <<"e","d">>) THEN SubSeq(t, 1, Len(t) - 2)
    ELSE IF endsWith(t, <<"s">>) /\ ~endsWith(t, <<"s","s">>)
         THEN SubSeq(t, 1, Len(t) - 1)
    ELSE t

normalizeTokens(s) ==
    LET lowered  == [i \in DOMAIN s |-> replaceNonAlnum(toLowerCase(s[i]))]
        tokens   == splitWs(lowered)
        kept     == SelectSeq(tokens, LAMBDA t : t \notin STOPWORDS)
    IN  [i \in DOMAIN kept |-> stripSuffix(kept[i])]

\* `${tokens[i]}_${tokens[i + 1]}` for every adjacent pair
getBigrams(tokens) ==
    {tokens[i] \o <<"_">> \o tokens[i + 1] : i \in 1..(Len(tokens) - 1)}

RECURSIVE joinWith(_, _)
\* Array.prototype.join
joinWith(parts, sep) ==
    IF parts = <<>> THEN <<>>
    ELSE IF Len(parts) = 1 THEN parts[1]
    ELSE parts[1] \o sep \o joinWith(Tail(parts), sep)

\* A score is the fraction <<numerator, denominator>> (denominator > 0).
ScoreOne  == <<1, 1>>
ScoreZero == <<0, 1>>

ScoreGt(x, y)  == x[1] * y[2] > y[1] * x[2]
ScoreGeq(x, y) == x[1] * y[2] >= y[1] * x[2]

\* the overlap measured against the first set only
jaccard_OverFirst(a, b) ==
    IF a = {} /\ b = {} THEN ScoreOne
    ELSE IF a = {} \/ b = {} THEN ScoreZero
    ELSE <<Cardinality({item \in a : item \in b}), Cardinality(a)>>

jaccard(a, b) ==
    IF a = {} /\ b = {} THEN ScoreOne
    ELSE IF a = {} \/ b = {} THEN ScoreZero
    ELSE LET intersection == Cardinality({item \in a : item \in b})
             union == Cardinality(a) + Cardinality(b) - intersection
         IN  <<intersection, union>>

\* the lower threshold only when both titles are short
threshold_BothShort(normNew, normPrev) ==
    IF Len(normNew) <= 6 /\ Len(normPrev) <= 6 THEN <<1, 2>> ELSE <<3, 5>>

\* a threshold every score reaches
threshold_Zero(normNew, normPrev) == ScoreZero

\* the threshold rule: 0.50 for short titles, 0.60 otherwise
threshold(normNew, normPrev) ==
    IF Len(normNew) <= 6 \/ Len(normPrev) <= 6 THEN <<1, 2>> ELSE <<3, 5>>

\* the bigram path tried before the exact check
scorePair_BigramFirst(newMove, prevMove) ==
    LET normNew  == normalizeTokens(newMove)
        normPrev == normalizeTokens(prevMove)
        newStr   == joinWith(normNew, <<" ">>)
        prevStr  == joinWith(normPrev, <<" ">>)
        score    == jaccard(getBigrams(normNew), getBigrams(normPrev))
    IN  IF ScoreGeq(score, threshold(normNew, normPrev))
        THEN [score |-> score, reason |-> "high_similarity"]
        ELSE IF newStr = prevStr
        THEN [score |-> ScoreOne, reason |-> "exact"]
        ELSE [score |-> score, reason |-> "none"]

\* score and reason of one (newMove, prevMove) pair; reason "none" is null
scorePair(newMove, prevMove) ==
    LET normNew  == normalizeTokens(newMove)
        normPrev == normalizeTokens(prevMove)
        newStr   == joinWith(normNew, <<" ">>)
        prevStr  == joinWith(normPrev, <<" ">>)
        score    == jaccard(getBigrams(normNew), getBigrams(normPrev))
    IN  IF newStr = prevStr
        THEN [score |-> ScoreOne, reason |-> "exact"]
        ELSE [score |-> score,
              reason |-> IF ScoreGeq(score, threshold(normNew, normPrev))
                         THEN "high_similarity" ELSE "none"]

EmptyReport == [pass |-> TRUE, maxScore |-> ScoreZero, pairs |-> <<>>]

\* an iteration that raises maxScore for flagged pairs only
reportStep_MaxOfFlagged(report, newMove, prevMove) ==
    LET r == scorePair(newMove, prevMove)
    IN  [pass     |-> report.pass /\ r.reason = "none",
         maxScore |-> IF r.reason # "none" /\ ScoreGt(r.score, report.maxScore)
                      THEN r.score ELSE report.maxScore,
         pairs    |-> IF r.reason # "none"
                      THEN Append(report.pairs,
                                  [newMove |-> newMove, prevMove |-> prevMove,
                                   score |-> r.score, reason |-> r.reason])
                      ELSE report.pairs]

\* an iteration that records the pair but leaves pass alone
reportStep_KeepsPass(report, newMove, prevMove) ==
    LET r == scorePair(newMove, prevMove)
    IN  [pass     |-> report.pass,
         maxScore |-> IF ScoreGt(r.score, report.maxScore)
                      THEN r.score ELSE report.maxScore,
         pairs    |-> IF r.reason # "none"
                      THEN Append(report.pairs,
                                  [newMove |-> newMove, prevMove |-> prevMove,
                                   score |-> r.score, reason |-> r.reason])
                      ELSE report.pairs]

\* one iteration of the inner loop of checkNoRepeats
reportStep(report, newMove, prevMove) ==
    LET r == scorePair(newMove, prevMove)
    IN  [pass     |-> report.pass /\ r.reason = "none",
         maxScore |-> IF ScoreGt(r.score, report.maxScore)
                      THEN r.score ELSE report.maxScore,
         pairs    |-> IF r.reason # "none"
                      THEN Append(report.pairs,
                                  [newMove |-> newMove, prevMove |-> prevMove,
                                   score |-> r.score, reason |-> r.reason])
                      ELSE report.pairs]

RECURSIVE innerLoop(_, _, _, _)
innerLoop(report, newMove, prevMoves, j) ==
    IF j > Len(prevMoves) THEN report
    ELSE innerLoop(reportStep(report, newMove, prevMoves[j]),
                   newMove, prevMoves, j + 1)

RECURSIVE outerLoop(_, _, _, _)
outerLoop(report, newMoves, prevMoves, i) ==
    IF i > Len(newMoves) THEN report
    ELSE outerLoop(innerLoop(report, newMoves[i], prevMoves, 1),
                   newMoves, prevMoves, i + 1)

\* export function checkNoRepeats(prevMoves, newMoves)
checkNoRepeats(prevMoves, newMoves) ==
    outerLoop(EmptyReport, newMoves, prevMoves, 1)

\* export function checkForSimilarity(newMoves, previousMoves)
checkForSimilarity(newMoves, previousMoves) ==
    outerLoop(EmptyReport, newMoves, previousMoves, 1)

\* the titles the comparisons are run on, in groups of related titles
TitlePools ==
    { {T_LegalGating, T_LegalReview, T_PilotTimeline},
      {T_FoxJumps, T_FoxJumping},
      {T_FoxJumps, T_Kings},
      {T_The, T_OfA},
      {T_Risk, T_Scope},
      {T_Risk, T_RiskScope},
      {T_LaunchDate, T_ReviewDate, T_AuditBlock} }

\* the longest list of titles given to a comparison
MaxMoves == 2

\* the lists of at most MaxMoves titles of a pool
MoveLists(pool) == UNION {[1..n -> pool] : n \in 0..MaxMoves}

\* ------------------------------------------------------------------------
\* Markdown documents
\* ------------------------------------------------------------------------

\* An optional value is the empty sequence (undefined) or a one-element
\* sequence holding the value.
None == <<>>
Some(v) == <<v>>

\* "N) Move: <title> (Framework: <framework>)"; framework is optional
MoveLine(title, framework) ==
    [kind |-> "move", text |-> title, framework |-> framework, parts |-> <<>>]

\* "   - Open Thread Update: Previously: A -> Now: B -> Update: C"; parts
\* holds <<A, B, C>>, or only <<A>> when the arrows are missing
UpdateLine(parts) ==
    [kind |-> "update", text |-> <<>>, framework |-> None, parts |-> parts]

\* "## Memory highlights used (for transparency)"
HighlightsHeading ==
    [kind |-> "highlightsHeading", text |-> <<>>, framework |-> None, parts |-> <<>>]

\* "- <chip>"
BulletLine(text) ==
    [kind |-> "bullet", text |-> text, framework |-> None, parts |-> <<>>]

\* "- Risk 1: <risk> — Mitigation: none"
RiskLine(text) ==
    [kind |-> "risk", text |-> text, framework |-> None, parts |-> <<>>]

\* "## 1 next action I can complete this week (smallest step)"
ActionHeading ==
    [kind |-> "actionHeading", text |-> <<>>, framework |-> None, parts |-> <<>>]

\* "- Action: <action>"
ActionLine(text) ==
    [kind |-> "action", text |-> text, framework |-> None, parts |-> <<>>]

\* any line no pattern matches
OtherLine ==
    [kind |-> "other", text |-> <<>>, framework |-> None, parts |-> <<>>]

RECURSIVE trimStart(_)
trimStart(s) ==
    IF s # <<>> /\ Head(s) \in WhitespaceChars THEN trimStart(Tail(s)) ELSE s

RECURSIVE trimEnd(_)
trimEnd(s) ==
    IF s # <<>> /\ s[Len(s)] \in WhitespaceChars
    THEN trimEnd(SubSeq(s, 1, Len(s) - 1)) ELSE s

\* String.prototype.trim
trim(s) == trimEnd(trimStart(s))

\* what /^\d+\)\s*Move:\s*(.+)$/ captures on a move line: the rest of the
\* line, which includes the framework tag
moveCapture(line) ==
    IF line.framework = None THEN line.text
    ELSE line.text \o S_FrameworkOpen \o line.framework[1] \o S_FrameworkClose

RECURSIVE extractMoves(_)
extractMoves(markdown) ==
    IF markdown = <<>> THEN <<>>
    ELSE IF Head(markdown).kind = "move"
         THEN <<trim(moveCapture(Head(markdown)))>> \o extractMoves(Tail(markdown))
         ELSE extractMoves(Tail(markdown))

\* the lines of kind k, in order
linesOfKind(markdown, k) == SelectSeq(markdown, LAMBDA l : l.kind = k)

\* the first position of the lines of markdown whose kind is in kinds, 0
\* when there is none
firstIndex(markdown, kinds) ==
    LET found == {i \in DOMAIN markdown : markdown[i].kind \in kinds}
    IN  IF found = {} THEN 0
        ELSE CHOOSE i \in found : \A j \in found : i <= j

extractStructuredData(markdown) ==
    LET resolverLines == {i \in DOMAIN markdown :
                             /\ markdown[i].kind = "update"
                             /\ Len(markdown[i].parts) = 3}
        r == IF resolverLines = {} THEN 0
             ELSE CHOOSE i \in resolverLines : \A j \in resolverLines : i <= j
        resolver ==
            IF r = 0 THEN None
            ELSE Some([previously |-> trim(markdown[r].parts[1]),
                       now        |-> trim(markdown[r].parts[2]),
                       update     |-> trim(markdown[r].parts[3])])
        riskLines == linesOfKind(markdown, "risk")
        risks == [i \in DOMAIN riskLines |-> trim(riskLines[i].text)]
        tagged == SelectSeq(markdown,
                            LAMBDA l : l.kind = "move" /\ l.framework # None)
        frameworks == [i \in DOMAIN tagged |-> trim(tagged[i].framework[1])]
        h == firstIndex(markdown, {"actionHeading"})
        a == IF h = 0 THEN 0
             ELSE firstIndex(SubSeq(markdown, h + 1, Len(markdown)), {"action"})
        nextAction == IF a = 0 THEN None ELSE Some(trim(markdown[h + a].text))
    IN  [resolver |-> resolver, openThreads |-> risks,
         frameworkByMove |-> frameworks, nextAction |-> nextAction]

\* the text after "- " of a line that holds a list item
dashText(line) ==
    CASE line.kind = "bullet" -> line.text
      [] line.kind = "risk"   -> S_RiskPrefix \o line.text \o S_MitigationSuffix
      [] line.kind = "action" -> S_ActionPrefix \o line.text
      [] line.kind = "update" ->
            IF Len(line.parts) = 3
            THEN S_UpdatePrefix \o line.parts[1] \o S_NowArrow \o line.parts[2]
                 \o S_UpdateArrow \o line.parts[3]
            ELSE S_UpdatePrefix \o line.parts[1]
      [] OTHER                -> <<>>

\* the line starts with "- " in column 0
startsWithDash(line) == line.kind \in {"bullet", "risk", "action"}

\* the kinds of line that hold "- " somewhere (an update line is an indented
\* list item)
DashKinds == {"bullet", "risk", "action", "update"}

RECURSIVE dashRun(_, _)
\* (?:- .+\n?)+ : the run of list lines starting at position i
dashRun(markdown, i) ==
    IF i <= Len(markdown) /\ startsWithDash(markdown[i])
    THEN <<markdown[i]>> \o dashRun(markdown, i + 1)
    ELSE <<>>

\* /## Memory highlights used[\s\S]*?((?:- .+\n?)+)/ and the mapping of its
\* capture to the chips; None when the pattern does not match
extractHighlights(markdown) ==
    LET h == firstIndex(markdown, {"highlightsHeading"})
        rest == IF h = 0 THEN <<>> ELSE SubSeq(markdown, h + 1, Len(markdown))
        d == firstIndex(rest, DashKinds)
        run == IF d = 0 THEN <<>> ELSE <<rest[d]>> \o dashRun(rest, d + 1)
    IN  IF h = 0 \/ d = 0 THEN None
        ELSE Some([i \in DOMAIN run |-> trim(dashText(run[i]))])

\* (markdown.match(/Open Thread Update: Previously:/g) || []).length
updateLineCount(markdown) == Len(linesOfKind(markdown, "update"))

\* (markdown.match(/## Memory highlights used/g) || []).length
highlightSectionCount(markdown) == Len(linesOfKind(markdown, "highlightsHeading"))

\* ------------------------------------------------------------------------
\* The inputs explored: documents the generation service may return, the
\* syllabus, and the prior brief
\* ------------------------------------------------------------------------

WellFormedUpdate == UpdateLine(<<X_OldPlan, X_NewReality, X_NewPlan>>)

\* the brief of the previous session, whose moves are lastBrief.payload.moves
D_Previous ==
    << MoveLine(T_LegalGating, Some(F_Porter)),
       MoveLine(T_PilotTimeline, Some(F_Swot)),
       MoveLine(T_BudgetFreeze, Some(F_Swot)) >>

\* follows the template: passes every gate
D_Good ==
    << MoveLine(T_VendorAudit, Some(F_Porter)),
       WellFormedUpdate,
       MoveLine(T_BoardAsks, Some(F_Swot)),
       MoveLine(T_VendorAudit, Some(F_Swot)),
       RiskLine(X_Risk),
       ActionHeading,
       ActionLine(X_Action),
       HighlightsHeading,
       BulletLine(X_Chip1),
       BulletLine(X_Chip2) >>

\* passes every gate, but has no highlights section, no update line, no
\* risks and no next action
D_Bare ==
    << MoveLine(T_BoardAsks, Some(F_Porter)),
       MoveLine(T_VendorAudit, Some(F_Porter)),
       MoveLine(T_BoardAsks, Some(F_Swot)) >>

\* only two moves
D_TwoMoves ==
    << MoveLine(T_VendorAudit, Some(F_Porter)),
       MoveLine(T_BoardAsks, None),
       HighlightsHeading,
       BulletLine(X_Chip3) >>

\* the update line appears twice
D_TwoUpdates ==
    << MoveLine(T_VendorAudit, Some(F_Porter)),
       WellFormedUpdate,
       MoveLine(T_BoardAsks, Some(F_Swot)),
       UpdateLine(<<X_NewPlan>>),
       MoveLine(T_VendorAudit, Some(F_Swot)),
       HighlightsHeading,
       BulletLine(X_Chip1) >>

\* two moves, an invented framework, two update lines, two highlights
\* sections
D_Messy ==
    << MoveLine(T_VendorAudit, Some(F_BlueOcean)),
       WellFormedUpdate,
       WellFormedUpdate,
       MoveLine(T_BoardAsks, Some(F_Swot)),
       HighlightsHeading,
       BulletLine(X_Chip2),
       HighlightsHeading,
       BulletLine(X_Chip3) >>

\* repeats two moves of the previous brief, the first under another
\* framework
D_Repeat ==
    << MoveLine(T_LegalGating, Some(F_Swot)),
       MoveLine(T_PilotTimeline, Some(F_Swot)),
       MoveLine(T_VendorAudit, Some(F_Swot)),
       HighlightsHeading,
       BulletLine(X_Chip1),
       OtherLine >>

Documents == {D_Good, D_Bare, D_TwoMoves, D_TwoUpdates, D_Messy, D_Repeat}

\* params.lastBrief: absent, a brief whose payload has no moves, or the
\* previous brief with its moves
LastBriefs ==
    { None,
      Some([payload |-> [moves |-> None]]),
      Some([payload |-> [moves |-> Some(extractMoves(D_Previous))]]) }

\* params.syllabusTopic: a topic of syllabus.json or an unknown one
SyllabusTopics == {"known", "unknown"}

\* the frameworks of the known session
KnownFrameworks == <<F_Porter, F_Swot>>

\* frameworkNames of formatSyllabusForLLM(getSyllabusDetails(topic))
frameworkNamesOf(topic) == IF topic = "known" THEN KnownFrameworks ELSE <<>>

\* ------------------------------------------------------------------------
\* generateBrief, retry-loop version
\* ------------------------------------------------------------------------

\* a budget of three retries
MAX_RETRIES_Three == 2 + 1

MAX_RETRIES == 2

VARIABLES
    pc,                    \* "idle", "awaiting" (a call is outstanding), "returned"
    lastBrief,             \* params.lastBrief
    enableSimilarityCheck, \* params.enableSimilarityCheck
    frameworkNames,        \* allowed framework names of the syllabus topic
    retryCount,
    userPrompt,            \* the segments of the user prompt
    markdown,
    memoryHighlights,
    moves,
    structuredData,
    similarityReport,      \* None or Some(report)
    result,                \* None or Some(the returned BriefGenerationResult)
    candidates,            \* newMoves of a direct call of checkForSimilarity
    references,            \* previousMoves of that call
    simReport,             \* None or Some(checkForSimilarity(candidates, references))
    swappedReport,         \* None or Some(checkForSimilarity(references, candidates))
    normalized,            \* None or Some(the token lists of the titles)
    thrown,                \* None or Some(the error generateBrief threw)
    attempts               \* one record per generation call issued

\* the state of a generateBrief invocation
genVars ==
    <<pc, lastBrief, enableSimilarityCheck, frameworkNames, retryCount,
      userPrompt, markdown, memoryHighlights, moves, structuredData,
      similarityReport, result, thrown, attempts>>

\* the state of a direct use of the similarity module
simVars == <<candidates, references, simReport, swappedReport, normalized>>

\* the state of an invocation of the single-retry generateBrief of llm.ts
VARIABLES
    llmPc,          \* "idle", "awaitingFirst", "awaitingRetry", "returned", "threw"
    llmParams,      \* the parameters of the invocation
    llmMessages,    \* messages
    llmMarkdown,    \* markdown
    llmMoves,       \* moves
    llmReport,      \* similarityReport: None or Some(report)
    llmRetryCount,  \* retryCount
    llmResult,      \* None or Some(the returned BriefGenerationResult)
    llmCalls        \* history: the generation calls issued by the invocation

llmVars ==
    <<llmPc, llmParams, llmMessages, llmMarkdown, llmMoves, llmReport,
      llmRetryCount, llmResult, llmCalls>>

\* what the hooks of the Brief page share
VARIABLES
    selectedSession,   \* the selectedSession option: None or Some(session)
    memory             \* the records of memoryProvider, newest first

appVars == <<selectedSession, memory>>

\* the state of useBriefGeneration
VARIABLES
    isGenerating,
    hookResult,        \* result: None or Some(the generated result)
    feedbackSubmitted,
    isPersonalized,
    generateCalls,     \* the generate() calls, each with its position and locals
    notified           \* history: the session dates given to onBriefGenerated

hookVars ==
    <<isGenerating, hookResult, feedbackSubmitted, isPersonalized,
      generateCalls, notified>>

\* the state of useBriefPreview
VARIABLES
    previewBrief,      \* None or Some(record)
    compareBrief,      \* None or Some(record)
    showPreview,
    isCompareMode,
    deltaSummary,      \* None or Some(summary)
    previewSyllabus,   \* None or Some(session)
    viewMode,          \* "executive" or "full"
    viewCall           \* the viewBrief() call in flight, with its locals

previewVars ==
    <<previewBrief, compareBrief, showPreview, isCompareMode, deltaSummary,
      previewSyllabus, viewMode, viewCall>>

vars == <<genVars, simVars, llmVars, appVars, hookVars, previewVars>>

\* what the steps of one component leave alone
notGenVars == <<simVars, llmVars, appVars, hookVars, previewVars>>
notSimVars == <<genVars, llmVars, appVars, hookVars, previewVars>>
notLlmVars == <<genVars, simVars, appVars, hookVars, previewVars>>
notHookVars == <<genVars, simVars, llmVars, previewVars>>
notPreviewVars == <<genVars, simVars, llmVars, hookVars>>

\* a segment of a message's content
Segment(kind, body) == [kind |-> kind, body |-> body]

\* the interpolated template the user prompt starts as
TemplateSegment == Segment("template", <<>>)

\* messages: [system, user] of openai.chat.completions.create
conversationOf(prompt) ==
    << [role |-> "system", content |-> <<Segment("systemPrompt", <<>>)>>],
       [role |-> "user", content |-> prompt] >>

\* one validation error; the fields a gate does not use are empty
ValidationError(gate, count, names, pairs) ==
    [gate |-> gate, count |-> count, names |-> names, pairs |-> pairs]

\* Gate 1 rejecting only more than three moves
gateMoveCount_TooMany(errors, mv) ==
    IF Len(mv) > 3
    THEN Append(errors, ValidationError("moveCount", Len(mv), <<>>, <<>>))
    ELSE errors

\* Gate 1: Move Count
gateMoveCount(errors, mv) ==
    IF Len(mv) # 3
    THEN Append(errors, ValidationError("moveCount", Len(mv), <<>>, <<>>))
    ELSE errors

\* Gate 2 with the membership test inverted
gateFrameworks_Inverted(errors, sd, names) ==
    LET invalidFrameworks ==
            SelectSeq(sd.frameworkByMove, LAMBDA f : f \in Range(names))
    IN  IF Len(names) > 0 /\ Len(invalidFrameworks) > 0
        THEN Append(errors, ValidationError("framework", 0, invalidFrameworks, <<>>))
        ELSE errors

\* Gate 2: Framework Validity
gateFrameworks(errors, sd, names) ==
    LET invalidFrameworks ==
            SelectSeq(sd.frameworkByMove, LAMBDA f : f \notin Range(names))
    IN  IF Len(names) > 0 /\ Len(invalidFrameworks) > 0
        THEN Append(errors, ValidationError("framework", 0, invalidFrameworks, <<>>))
        ELSE errors

\* Gate 3 tolerating two update lines
gateUpdateLine_MoreThanTwo(errors, md, brief) ==
    IF brief # None /\ updateLineCount(md) # 1 /\ updateLineCount(md) > 2
    THEN Append(errors, ValidationError("updateLine", updateLineCount(md), <<>>, <<>>))
    ELSE errors

\* Gate 3: Open Thread Update Line (Single Occurrence)
gateUpdateLine(errors, md, brief) ==
    IF brief # None /\ updateLineCount(md) # 1 /\ updateLineCount(md) > 1
    THEN Append(errors, ValidationError("updateLine", updateLineCount(md), <<>>, <<>>))
    ELSE errors

\* Gate 4: Duplicate Sections
gateDuplicateSections(errors, md) ==
    IF highlightSectionCount(md) > 1
    THEN Append(errors, ValidationError("duplicateSection", 0, <<>>, <<>>))
    ELSE errors

\* Gate 6 applying whether or not the check is enabled
similarityApplies_IgnoresFlag(enabled, brief) ==
    brief # None /\ brief[1].payload.moves # None

\* Gate 6 applies: enableSimilarityCheck && lastBrief && lastBrief.payload.moves
similarityApplies(enabled, brief) ==
    enabled /\ brief # None /\ brief[1].payload.moves # None

\* the report of Gate 6
similarityGateReport(mv, brief) == checkNoRepeats(mv, brief[1].payload.moves[1])

\* Gate 6 with a feedback that names the first flagged pair only
gateSimilarity_FirstPair(errors, report) ==
    IF report # None /\ ~report[1].pass
    THEN Append(errors, ValidationError("similarity", 0, <<>>,
                    << <<report[1].pairs[1].newMove,
                         report[1].pairs[1].prevMove>> >>))
    ELSE errors

\* Gate 6: Similarity Check (if enabled); report is None when the gate does
\* not apply
gateSimilarity(errors, report) ==
    IF report # None /\ ~report[1].pass
    THEN LET feedback == [i \in DOMAIN report[1].pairs |->
                            <<report[1].pairs[i].newMove,
                              report[1].pairs[i].prevMove>>]
         IN  Append(errors, ValidationError("similarity", 0, <<>>, feedback))
    ELSE errors

\* the gates stopping at the first one that reports an error
validationErrors_ShortCircuit(md, mv, sd, names, brief, gateReport) ==
    LET g1 == gateMoveCount(<<>>, mv)
        g2 == IF g1 # <<>> THEN g1 ELSE gateFrameworks(g1, sd, names)
        g3 == IF g2 # <<>> THEN g2 ELSE gateUpdateLine(g2, md, brief)
        g4 == IF g3 # <<>> THEN g3 ELSE gateDuplicateSections(g3, md)
    IN  IF g4 # <<>> THEN g4 ELSE gateSimilarity(g4, gateReport)

\* the validation gates, in the order they run (Gate 5 only logs a warning)
validationErrors(md, mv, sd, names, brief, gateReport) ==
    gateSimilarity(
        gateDuplicateSections(
            gateUpdateLine(
                gateFrameworks(gateMoveCount(<<>>, mv), sd, names),
                md, brief),
            md),
        gateReport)

\* a test that rejects every attempt
hasErrors_AlwaysRetry(errors) == Len(errors) >= 0

\* validationErrors.length > 0: the attempt is rejected
hasErrors(errors) == Len(errors) > 0

\* a message that restates only the first error
validationMessage_FirstOnly(errors) ==
    [type |-> "validation", errors |-> SubSeq(errors, 1, 1)]

\* error.message of the error a failed validation throws
validationMessage(errors) == [type |-> "validation", errors |-> errors]

\* error.message of a failure of the generation call itself
TransportMessage == [type |-> "transport", errors |-> <<>>]

\* a return statement that reports the number of calls as retryCount
resultOf_CountsCalls(md, hl, mv, sd, report, brief, retries) ==
    [markdown |-> md, memoryHighlights |-> hl, moves |-> mv,
     structuredData |-> sd, similarityReport |-> report,
     usage |-> [usedLastBrief |-> brief # None, retryCount |-> retries + 1]]

\* the value of the return statement
resultOf(md, hl, mv, sd, report, brief, retries) ==
    [markdown |-> md, memoryHighlights |-> hl, moves |-> mv,
     structuredData |-> sd, similarityReport |-> report,
     usage |-> [usedLastBrief |-> brief # None, retryCount |-> retries]]

\* a pending generation call with the conversation it was sent
pendingCall(prompt) ==
    [conversation |-> conversationOf(prompt), outcome |-> "pending",
     text |-> <<>>, errors |-> <<>>]

\* the last call of calls left outstanding while its output is handled
completeCall_NotAwaited(calls, outcome, text, errors) ==
    [calls EXCEPT ![Len(calls)] = [@ EXCEPT !.text = text, !.errors = errors]]

\* the last call of calls completed with the given outcome
completeCall(calls, outcome, text, errors) ==
    [calls EXCEPT ![Len(calls)] =
        [@ EXCEPT !.outcome = outcome, !.text = text, !.errors = errors]]

TypeOK ==
    /\ pc \in {"idle", "awaiting", "returned"}
    /\ lastBrief \in LastBriefs
    /\ enableSimilarityCheck \in BOOLEAN
    /\ retryCount \in 0..(MAX_RETRIES + 1)
    /\ Len(attempts) <= MAX_RETRIES + 1

\* no generateBrief invocation has started
InitGen ==
    /\ pc = "idle"
    /\ lastBrief = None
    /\ enableSimilarityCheck = FALSE
    /\ frameworkNames = <<>>
    /\ retryCount = 0
    /\ userPrompt = <<TemplateSegment>>
    /\ markdown = <<>>
    /\ memoryHighlights = <<>>
    /\ moves = <<>>
    /\ structuredData = [resolver |-> None, openThreads |-> <<>>,
                         frameworkByMove |-> <<>>, nextAction |-> None]
    /\ similarityReport = None
    /\ result = None
    /\ thrown = None
    /\ attempts = <<>>

\* the similarity module has not been called directly
InitSim ==
    /\ candidates = <<>>
    /\ references = <<>>
    /\ simReport = None
    /\ swappedReport = None
    /\ normalized = None

\* no invocation of the single-retry generateBrief has started
InitLlm ==
    /\ llmPc = "idle"
    /\ llmParams = None
    /\ llmMessages = <<>>
    /\ llmMarkdown = <<>>
    /\ llmMoves = <<>>
    /\ llmReport = None
    /\ llmRetryCount = 0
    /\ llmResult = None
    /\ llmCalls = <<>>

\* the generate() calls followed: a first and a second, which may overlap
Calls == {1, 2}

\* the useState initial values of useBriefGeneration; no generate() call yet
InitHook ==
    /\ isGenerating = FALSE
    /\ hookResult = None
    /\ feedbackSubmitted = FALSE
    /\ isPersonalized = TRUE
    /\ generateCalls = [k \in Calls |->
                           [pc |-> "idle", session |-> 0, personalized |-> FALSE,
                            lastBrief |-> None, generated |-> None]]
    /\ notified = <<>>

\* the useState initial values of useBriefPreview; no viewBrief() call yet
InitPreview ==
    /\ previewBrief = None
    /\ compareBrief = None
    /\ showPreview = FALSE
    /\ isCompareMode = FALSE
    /\ deltaSummary = None
    /\ previewSyllabus = None
    /\ viewMode = "executive"
    /\ viewCall = [pc |-> "idle", session |-> 0, compare |-> FALSE,
                   currentBrief |-> None, prevBrief |-> None]

\* the Brief page before any use: no session selected, nothing stored
InitPage ==
    /\ selectedSession = None
    /\ memory = <<>>
    /\ InitHook
    /\ InitPreview

Init ==
    /\ InitGen
    /\ InitSim
    /\ InitLlm
    /\ InitPage

\* generateBrief(params) up to its first await: the prompt is built, the
\* locals are initialised and the first generation call is issued
Invoke(brief, enabled, topic) ==
    /\ pc \in {"idle", "returned"}
    /\ lastBrief' = brief
    /\ enableSimilarityCheck' = enabled
    /\ frameworkNames' = frameworkNamesOf(topic)
    /\ retryCount' = 0
    /\ userPrompt' = <<TemplateSegment>>
    /\ markdown' = <<>>
    /\ memoryHighlights' = <<>>
    /\ moves' = <<>>
    /\ structuredData' = [resolver |-> None, openThreads |-> <<>>,
                          frameworkByMove |-> <<>>, nextAction |-> None]
    /\ similarityReport' = None
    /\ result' = None
    /\ thrown' = None
    /\ attempts' = <<pendingCall(<<TemplateSegment>>)>>
    /\ pc' = "awaiting"
    /\ UNCHANGED notGenVars

\* the catch block and what follows it, given the values the try block left
\* in the locals: count the retry, then either return the best effort or
\* add the feedback and issue the next call (the loop condition
\* retryCount <= MAX_RETRIES holds whenever the catch block did not break)
CatchBlock(message, md, hl, mv, sd, report, calls) ==
    /\ retryCount' = retryCount + 1
    /\ IF retryCount + 1 > MAX_RETRIES
       THEN /\ userPrompt' = userPrompt
            /\ attempts' = calls
            /\ result' = Some(resultOf(md, hl, mv, sd, report, lastBrief,
                                       retryCount + 1))
            /\ pc' = "returned"
       ELSE /\ userPrompt' = Append(userPrompt, Segment("feedback", message))
            /\ attempts' = Append(calls,
                   pendingCall(Append(userPrompt, Segment("feedback", message))))
            /\ result' = result
            /\ pc' = "awaiting"

\* the generation call returns text: extraction, the validation gates, and
\* then success (return) or the catch block
Respond(text) ==
    /\ pc = "awaiting"
    /\ LET mv == extractMoves(text)
           sd == extractStructuredData(text)
           highlightsMatch == extractHighlights(text)
           hl == IF highlightsMatch # None THEN highlightsMatch[1]
                 ELSE memoryHighlights
           gateReport == IF similarityApplies(enableSimilarityCheck, lastBrief)
                         THEN Some(similarityGateReport(mv, lastBrief))
                         ELSE None
           report == IF gateReport # None THEN gateReport ELSE similarityReport
           errors == validationErrors(text, mv, sd, frameworkNames, lastBrief,
                                      gateReport)
           calls == completeCall(attempts, "text", text, errors)
       IN  /\ markdown' = text
           /\ moves' = mv
           /\ structuredData' = sd
           /\ memoryHighlights' = hl
           /\ similarityReport' = report
           /\ IF hasErrors(errors)
              THEN CatchBlock(validationMessage(errors), text, hl, mv, sd,
                              report, calls)
              ELSE /\ retryCount' = retryCount
                   /\ userPrompt' = userPrompt
                   /\ attempts' = calls
                   /\ result' = Some(resultOf(text, hl, mv, sd, report,
                                              lastBrief, retryCount))
                   /\ pc' = "returned"
    /\ UNCHANGED <<lastBrief, enableSimilarityCheck, frameworkNames, thrown>>
    /\ UNCHANGED notGenVars

\* the generation call throws (service unreachable, rate limit, malformed
\* response): the same catch block handles it
Fail ==
    /\ pc = "awaiting"
    /\ CatchBlock(TransportMessage, markdown, memoryHighlights, moves,
                  structuredData, similarityReport,
                  completeCall(attempts, "threw", <<>>, <<>>))
    /\ UNCHANGED <<lastBrief, enableSimilarityCheck, frameworkNames, markdown,
                   memoryHighlights, moves, structuredData, similarityReport,
                   thrown>>
    /\ UNCHANGED notGenVars

Next ==
    \/ \E brief \in LastBriefs, enabled \in BOOLEAN, topic \in SyllabusTopics :
          Invoke(brief, enabled, topic)
    \/ \E text \in Documents : Respond(text)
    \/ Fail

Spec == Init /\ [][Next]_vars

\* ------------------------------------------------------------------------
\* The similarity module used directly, as similarity.test.ts does
\* ------------------------------------------------------------------------

\* the caller holds two lists of titles and has not called anything yet
SimInit ==
    /\ InitGen
    /\ \E pool \in TitlePools :
          /\ candidates \in MoveLists(pool)
          /\ references \in MoveLists(pool)
    /\ simReport = None
    /\ swappedReport = None
    /\ normalized = None
    /\ InitLlm
    /\ InitPage

\* const report = checkForSimilarity(curr, prev)
Compare ==
    /\ simReport = None
    /\ normalized = None
    /\ simReport' = Some(checkForSimilarity(candidates, references))
    /\ UNCHANGED <<notSimVars, candidates, references, swappedReport, normalized>>

\* the same call with the two argument lists exchanged, made after the
\* first one
CompareSwapped ==
    /\ simReport # None
    /\ swappedReport = None
    /\ swappedReport' = Some(checkForSimilarity(references, candidates))
    /\ UNCHANGED <<notSimVars, candidates, references, simReport, normalized>>

\* normalizeTokens of every title, and normalizeTokens of the space-joined
\* tokens it returned, by a caller that compares nothing
Normalize ==
    /\ normalized = None
    /\ simReport = None
    /\ LET titles == candidates \o references
           once   == [i \in DOMAIN titles |-> normalizeTokens(titles[i])]
           twice  == [i \in DOMAIN titles |->
                         normalizeTokens(joinWith(once[i], <<" ">>))]
       IN  normalized' = Some([titles |-> titles, once |-> once, twice |-> twice])
    /\ UNCHANGED <<notSimVars, candidates, references, simReport, swappedReport>>

SimNext ==
    \/ Compare
    \/ CompareSwapped
    \/ Normalize

SimSpec == SimInit /\ [][SimNext]_vars

\* ------------------------------------------------------------------------
\* generateBrief of llm.ts: one similarity check and at most one retry
\* ------------------------------------------------------------------------

\* params.mode
Modes == {"personalized", "generic"}

\* what the generation service can answer: a document or no content
Completions == Documents \cup {<<>>}

\* completion.choices[0]?.message?.content || "Error generating brief."
contentOf(completion) == IF completion = <<>> THEN <<OtherLine>> ELSE completion

\* the check applying without regard to the mode
llmSimilarityApplies_IgnoresMode(enabled, mode, brief) ==
    enabled /\ brief # None /\ brief[1].payload.moves # None

\* enableSimilarityCheck && isPersonalized && lastBrief && lastBrief.payload.moves
llmSimilarityApplies(enabled, mode, brief) ==
    /\ enabled
    /\ mode = "personalized"
    /\ brief # None
    /\ brief[1].payload.moves # None

\* the lines of markdown.split('## Memory highlights used')[1]: those
\* between the first heading and the next one
highlightSection(md) ==
    LET h == firstIndex(md, {"highlightsHeading"})
        rest == IF h = 0 THEN <<>> ELSE SubSeq(md, h + 1, Len(md))
        n == firstIndex(rest, {"highlightsHeading"})
    IN  IF n = 0 THEN rest ELSE SubSeq(rest, 1, n - 1)

\* .filter(line => line.trim().startsWith('-'))
\* .map(line => line.replace(/^-/, '').trim()); an update line is indented,
\* so it keeps its dash
llmHighlights(md) ==
    LET dashed == SelectSeq(highlightSection(md), LAMBDA l : l.kind \in DashKinds)
    IN  [i \in DOMAIN dashed |->
            IF dashed[i].kind = "update"
            THEN <<"-", " ">> \o trim(dashText(dashed[i]))
            ELSE trim(dashText(dashed[i]))]

\* the value of the return statement (profile and deltas are not modelled)
llmResultOf(md, mv, report, params, retries) ==
    [markdown |-> md, memoryHighlights |-> llmHighlights(md), moves |-> mv,
     similarityReport |-> report,
     usage |-> [usedLastBrief |-> params.mode = "personalized"
                                     /\ params.lastBrief # None,
                retryCount |-> retries]]

\* the retry instruction, which lists the previous move titles
retryInstruction(prevMoves) == Segment("retryInstruction", prevMoves)

\* a generation call with the messages it was sent
llmCall(messages) == [messages |-> messages, outcome |-> "pending", text |-> <<>>]

\* the last call of calls completed
llmCompleted(calls, outcome, text) ==
    [calls EXCEPT ![Len(calls)] = [@ EXCEPT !.outcome = outcome, !.text = text]]

\* generateBrief(params) up to its first await
LlmInvoke(brief, enabled, mode) ==
    /\ llmPc \in {"idle", "returned", "threw"}
    /\ llmParams' = Some([lastBrief |-> brief, enableSimilarityCheck |-> enabled,
                          mode |-> mode])
    /\ llmRetryCount' = 0
    /\ llmMessages' = conversationOf(<<TemplateSegment>>)
    /\ llmMarkdown' = <<>>
    /\ llmMoves' = <<>>
    /\ llmReport' = None
    /\ llmResult' = None
    /\ llmCalls' = <<llmCall(conversationOf(<<TemplateSegment>>))>>
    /\ llmPc' = "awaitingFirst"
    /\ UNCHANGED notLlmVars

\* the return statement
LlmReturn(md, mv, report, retries, calls) ==
    /\ llmMarkdown' = md
    /\ llmMoves' = mv
    /\ llmReport' = report
    /\ llmRetryCount' = retries
    /\ llmResult' = Some(llmResultOf(md, mv, report, llmParams[1], retries))
    /\ llmCalls' = calls
    /\ llmPc' = "returned"
    /\ UNCHANGED <<llmParams, llmMessages>>

\* the first call returns: first check, then the retry call or the return
LlmFirstResponse(completion) ==
    /\ llmPc = "awaitingFirst"
    /\ LET md == contentOf(completion)
           mv == extractMoves(md)
           params == llmParams[1]
           calls == llmCompleted(llmCalls, "text", completion)
       IN  IF llmSimilarityApplies(params.enableSimilarityCheck, params.mode,
                                   params.lastBrief)
           THEN LET prevMoves == params.lastBrief[1].payload.moves[1]
                    report == checkNoRepeats(prevMoves, mv)
                    messages == llmMessages \o
                        << [role |-> "assistant",
                            content |-> <<Segment("markdown", md)>>],
                           [role |-> "user",
                            content |-> <<retryInstruction(prevMoves)>>] >>
                IN  IF ~report.pass
                    THEN /\ llmRetryCount' = llmRetryCount + 1
                         /\ llmMessages' = messages
                         /\ llmMarkdown' = md
                         /\ llmMoves' = mv
                         /\ llmReport' = Some(report)
                         /\ llmCalls' = Append(calls, llmCall(messages))
                         /\ llmPc' = "awaitingRetry"
                         /\ UNCHANGED <<llmParams, llmResult>>
                    ELSE LlmReturn(md, mv, Some(report), llmRetryCount, calls)
           ELSE LlmReturn(md, mv, None, llmRetryCount, calls)
    /\ UNCHANGED notLlmVars

\* the retry call returns: re-check for the report only, then the return
LlmRetryResponse(completion) ==
    /\ llmPc = "awaitingRetry"
    /\ LET md == contentOf(completion)
           mv == extractMoves(md)
           prevMoves == llmParams[1].lastBrief[1].payload.moves[1]
       IN  LlmReturn(md, mv, Some(checkNoRepeats(prevMoves, mv)), llmRetryCount,
                     llmCompleted(llmCalls, "text", completion))
    /\ UNCHANGED notLlmVars

\* a generation call throws: the catch block throws "Failed to generate
\* brief. Please check your API key."
LlmFail ==
    /\ llmPc \in {"awaitingFirst", "awaitingRetry"}
    /\ llmCalls' = llmCompleted(llmCalls, "threw", <<>>)
    /\ llmPc' = "threw"
    /\ UNCHANGED <<llmParams, llmMessages, llmMarkdown, llmMoves, llmReport,
                   llmRetryCount, llmResult>>
    /\ UNCHANGED notLlmVars

LlmInit ==
    /\ InitGen
    /\ InitSim
    /\ InitLlm
    /\ InitPage

LlmNext ==
    \/ \E brief \in LastBriefs, enabled \in BOOLEAN, mode \in Modes :
          LlmInvoke(brief, enabled, mode)
    \/ \E completion \in Completions : LlmFirstResponse(completion)
    \/ \E completion \in Completions : LlmRetryResponse(completion)
    \/ LlmFail

LlmSpec == LlmInit /\ [][LlmNext]_vars

\* ------------------------------------------------------------------------
\* The memory provider and useBriefGeneration
\* ------------------------------------------------------------------------

\* the number of sessions of the syllabus
MaxSession == 2

\* syllabus.sessions, named by their rank in date order
Sessions == 1..MaxSession

\* [...syllabus.sessions].sort by date; sorted[currentIndex - 1] or null
previousSession(session) ==
    IF session > 1 THEN Some(session - 1) ELSE None

\* a brief_output record as memoryProvider.add stores it; by is history:
\* the generate() call that added it
briefRecord(session, mode, titles, created, by) ==
    [episode_type |-> "brief_output", session_id |-> session,
     created_at |-> created, mode |-> mode, moves |-> titles, by |-> by]

\* LocalMemoryProvider.add: the new record goes first and is saved at once
addMemory(store, record) == <<record>> \o store

\* LocalMemoryProvider.search with an empty query: filter, then the top k
searchMemory(store, episodeType, session, topK) ==
    LET found == SelectSeq(store, LAMBDA m : /\ m.episode_type = episodeType
                                            /\ m.session_id = session)
    IN SubSeq(found, 1, IF Len(found) < topK THEN Len(found) ELSE topK)

\* the records before position i that must stay before the record at i
RECURSIVE insertByDate(_, _)
insertByDate(sorted, m) ==
    IF sorted = <<>> THEN <<m>>
    ELSE IF Head(sorted).created_at >= m.created_at
         THEN <<Head(sorted)>> \o insertByDate(Tail(sorted), m)
         ELSE <<m>> \o sorted

\* briefs.sort by created_at descending (a stable sort)
RECURSIVE sortByDate(_)
sortByDate(briefs) ==
    IF briefs = <<>> THEN <<>>
    ELSE insertByDate(sortByDate(SubSeq(briefs, 1, Len(briefs) - 1)),
                      briefs[Len(briefs)])

\* getBestBrief(sessionId): the newest personalized brief of the session,
\* else its newest brief, else null
getBestBrief(store, session) ==
    LET briefs       == searchMemory(store, "brief_output", session, 10)
        sortedBriefs == sortByDate(briefs)
        personalized == SelectSeq(sortedBriefs,
                                  LAMBDA b : b.mode = "personalized")
    IN IF briefs = <<>> THEN None
       ELSE IF personalized # <<>> THEN Some(Head(personalized))
       ELSE Some(Head(sortedBriefs))

\* the move lists of the briefs generateBrief can return, titles by name
GeneratedMoves ==
    { <<"vendor audit", "board asks", "pilot timeline">>,
      <<"board asks", "legal gating", "vendor audit">> }

\* the positions of a generate() call that has started and not ended
InFlight == {"profile", "deltas", "lastBrief", "generating", "saving"}

\* the position of a generate() call becomes p
moveTo(k, p) == [generateCalls EXCEPT ![k].pc = p]

\* generate(): nothing without a selected session; else the flags are set
\* and the profile is searched for
Generate(k) ==
    /\ generateCalls[k].pc = "idle"
    /\ \A j \in Calls : j < k => generateCalls[j].pc # "idle"
    /\ IF selectedSession = None
       THEN /\ generateCalls' = moveTo(k, "refused")
            /\ UNCHANGED <<isGenerating, hookResult, feedbackSubmitted>>
       ELSE /\ isGenerating' = TRUE
            /\ hookResult' = None
            /\ feedbackSubmitted' = FALSE
            /\ generateCalls' =
                  [generateCalls EXCEPT ![k].pc = "profile",
                                        ![k].session = selectedSession[1],
                                        ![k].personalized = isPersonalized]
    /\ UNCHANGED <<isPersonalized, notified, appVars, notHookVars>>

\* the profile search has returned: the work deltas are searched for
ProfileFound(k) ==
    /\ generateCalls[k].pc = "profile"
    /\ generateCalls' = moveTo(k, "deltas")
    /\ UNCHANGED <<isGenerating, hookResult, feedbackSubmitted, isPersonalized,
                   notified, appVars, notHookVars>>

\* the delta search has returned: the best brief of the previous session
\* is asked for, or generateBrief is called at once when there is none
DeltasFound(k) ==
    /\ generateCalls[k].pc = "deltas"
    /\ LET prev == previousSession(generateCalls[k].session)
       IN generateCalls' =
            IF prev # None
            THEN [generateCalls EXCEPT
                    ![k].pc = "lastBrief",
                    ![k].lastBrief = getBestBrief(memory, prev[1])]
            ELSE moveTo(k, "generating")
    /\ UNCHANGED <<isGenerating, hookResult, feedbackSubmitted, isPersonalized,
                   notified, appVars, notHookVars>>

\* getBestBrief has returned: generateBrief is called
LastBriefFound(k) ==
    /\ generateCalls[k].pc = "lastBrief"
    /\ generateCalls' = moveTo(k, "generating")
    /\ UNCHANGED <<isGenerating, hookResult, feedbackSubmitted, isPersonalized,
                   notified, appVars, notHookVars>>

\* generateBrief has returned: the result is set and the record is added;
\* when add throws nothing is stored and the call ends in catch and finally
Generated(k, titles, addThrows) ==
    /\ generateCalls[k].pc = "generating"
    /\ LET call   == generateCalls[k]
           value  == [moves |-> titles, call |-> k]
           mode   == IF call.personalized THEN "personalized" ELSE "generic"
           record == briefRecord(call.session, mode, titles,
                                 Len(memory) + 1, k)
       IN /\ hookResult' = Some(value)
          /\ IF addThrows
             THEN /\ generateCalls' =
                        [generateCalls EXCEPT ![k].pc = "failed",
                                              ![k].generated = Some(value)]
                  /\ isGenerating' = FALSE
                  /\ UNCHANGED memory
             ELSE /\ generateCalls' =
                        [generateCalls EXCEPT ![k].pc = "saving",
                                              ![k].generated = Some(value)]
                  /\ memory' = addMemory(memory, record)
                  /\ UNCHANGED isGenerating
    /\ UNCHANGED <<feedbackSubmitted, isPersonalized, notified,
                   selectedSession, notHookVars>>

\* memoryProvider.add has returned: onBriefGenerated is called with the
\* date of the call's session, then the finally block clears isGenerating
Saved(k) ==
    /\ generateCalls[k].pc = "saving"
    /\ notified' = Append(notified, [session |-> generateCalls[k].session,
                                      by |-> k])
    /\ isGenerating' = FALSE
    /\ generateCalls' = moveTo(k, "done")
    /\ UNCHANGED <<hookResult, feedbackSubmitted, isPersonalized, appVars,
                   notHookVars>>

\* a catch block that reports the session as generated
LookupFails_Notifies(k) ==
    /\ generateCalls[k].pc \in {"profile", "deltas", "lastBrief", "generating"}
    /\ isGenerating' = FALSE
    /\ generateCalls' = moveTo(k, "failed")
    /\ notified' = Append(notified, [session |-> generateCalls[k].session,
                                      by |-> k])
    /\ UNCHANGED <<hookResult, feedbackSubmitted, isPersonalized,
                   appVars, notHookVars>>

\* a memory lookup or generateBrief throws: the catch block shows the
\* error, then the finally block runs
LookupFails(k) ==
    /\ generateCalls[k].pc \in {"profile", "deltas", "lastBrief", "generating"}
    /\ isGenerating' = FALSE
    /\ generateCalls' = moveTo(k, "failed")
    /\ UNCHANGED <<hookResult, feedbackSubmitted, isPersonalized, notified,
                   appVars, notHookVars>>

\* clearResult()
ClearResult ==
    /\ hookResult # None \/ feedbackSubmitted
    /\ hookResult' = None
    /\ feedbackSubmitted' = FALSE
    /\ UNCHANGED <<isGenerating, isPersonalized, generateCalls, notified,
                   appVars, notHookVars>>

\* submitFeedback()
SubmitFeedback ==
    /\ ~feedbackSubmitted
    /\ feedbackSubmitted' = TRUE
    /\ UNCHANGED <<isGenerating, hookResult, isPersonalized, generateCalls,
                   notified, appVars, notHookVars>>

\* setIsPersonalized(value)
SetIsPersonalized(value) ==
    /\ value # isPersonalized
    /\ isPersonalized' = value
    /\ UNCHANGED <<isGenerating, hookResult, feedbackSubmitted, generateCalls,
                   notified, appVars, notHookVars>>

\* the page selects a session of the syllabus
SelectSession(session) ==
    /\ selectedSession # Some(session)
    /\ selectedSession' = Some(session)
    /\ UNCHANGED <<memory, hookVars, previewVars, genVars, simVars, llmVars>>

HookInit ==
    /\ InitGen
    /\ InitSim
    /\ InitLlm
    /\ InitPage

HookNext ==
    \/ \E session \in Sessions : SelectSession(session)
    \/ \E value \in BOOLEAN : SetIsPersonalized(value)
    \/ \E k \in Calls : Generate(k)
    \/ \E k \in Calls : ProfileFound(k)
    \/ \E k \in Calls : DeltasFound(k)
    \/ \E k \in Calls : LastBriefFound(k)
    \/ \E k \in Calls, titles \in GeneratedMoves,
          addThrows \in BOOLEAN : Generated(k, titles, addThrows)
    \/ \E k \in Calls : Saved(k)
    \/ \E k \in Calls : LookupFails(k)
    \/ ClearResult
    \/ SubmitFeedback

HookSpec == HookInit /\ [][HookNext]_vars

\* ------------------------------------------------------------------------
\* useBriefPreview
\* ------------------------------------------------------------------------

\* generateDeltaSummary(prevBrief, currentBrief) for briefs without
\* structuredData: the top move is new or ongoing, the others are progress
generateDeltaSummary(prevBrief, currentBrief) ==
    LET currentMoves == currentBrief.moves
        topMove      == Head(currentMoves)
        isNew        == \A i \in DOMAIN prevBrief.moves :
                           prevBrief.moves[i] # topMove
    IN [resolved |-> <<>>,
        new      |-> IF currentMoves # <<>> /\ isNew
                     THEN <<<<topMove, "(Top Priority)">>>> ELSE <<>>,
        progress |-> (IF currentMoves # <<>> /\ ~isNew
                      THEN <<<<topMove, "(Ongoing Priority)">>>> ELSE <<>>)
                     \o (IF Len(currentMoves) > 1
                         THEN [i \in 1..(Len(currentMoves) - 1) |->
                                 <<currentMoves[i + 1]>>]
                         ELSE <<>>)]

\* what one session has in store
StoredChoices == {"none", "generic", "personalized", "both"}

\* the brief_output records of one session, newest first; with both, the
\* generic brief is the newer one
storedBriefs(session, choice) ==
    LET personal == briefRecord(session, "personalized",
                                <<"vendor audit", "board asks">>,
                                2 * session - 1, 0)
        generic  == briefRecord(session, "generic",
                                <<"board asks", "legal gating">>,
                                2 * session, 0)
    IN CASE choice = "none"         -> <<>>
         [] choice = "generic"      -> <<generic>>
         [] choice = "personalized" -> <<personal>>
         [] choice = "both"         -> <<generic, personal>>

\* the records of the sessions up to the given one, newest first
RECURSIVE storeOf(_, _)
storeOf(choices, session) ==
    IF session = 0 THEN <<>>
    ELSE storedBriefs(session, choices[session]) \o storeOf(choices, session - 1)

\* the stores the page can find when it opens
Stores == { storeOf(choices, MaxSession) : choices \in [Sessions -> StoredChoices] }

\* the viewBrief() call is over
viewDone == [viewCall EXCEPT !.pc = "idle"]

\* viewBrief(compare): nothing without a selected session; else the best
\* brief of the selected session is asked for
ViewBrief(compare) ==
    /\ viewCall.pc = "idle"
    /\ selectedSession # None
    /\ viewCall' = [pc |-> "current", session |-> selectedSession[1],
                    compare |-> compare,
                    currentBrief |-> getBestBrief(memory, selectedSession[1]),
                    prevBrief |-> None]
    /\ UNCHANGED <<previewBrief, compareBrief, showPreview, isCompareMode,
                   deltaSummary, previewSyllabus, viewMode, appVars,
                   notPreviewVars>>

\* getBestBrief of the selected session has returned
CurrentBriefFound ==
    /\ viewCall.pc = "current"
    /\ LET currentBrief == viewCall.currentBrief
           prev         == previousSession(viewCall.session)
       IN IF currentBrief = None
          THEN /\ viewCall' = viewDone
               /\ UNCHANGED <<previewBrief, compareBrief, showPreview,
                              isCompareMode, deltaSummary, previewSyllabus,
                              viewMode>>
          ELSE /\ previewBrief' = currentBrief
               /\ previewSyllabus' = Some(viewCall.session)
               /\ IF viewCall.compare
                  THEN IF prev # None
                       THEN /\ viewCall' =
                                 [viewCall EXCEPT
                                    !.pc = "previous",
                                    !.prevBrief = getBestBrief(memory, prev[1])]
                            /\ UNCHANGED <<compareBrief, showPreview,
                                           isCompareMode, deltaSummary,
                                           viewMode>>
                       ELSE /\ isCompareMode' = TRUE
                            /\ viewMode' = "executive"
                            /\ showPreview' = TRUE
                            /\ viewCall' = viewDone
                            /\ UNCHANGED <<compareBrief, deltaSummary>>
                  ELSE /\ isCompareMode' = FALSE
                       /\ compareBrief' = None
                       /\ deltaSummary' = None
                       /\ showPreview' = TRUE
                       /\ viewCall' = viewDone
                       /\ UNCHANGED viewMode
    /\ UNCHANGED <<appVars, notPreviewVars>>

\* getBestBrief of the previous session has returned
PreviousBriefFound ==
    /\ viewCall.pc = "previous"
    /\ LET prevBrief == viewCall.prevBrief
       IN IF prevBrief # None
          THEN /\ compareBrief' = prevBrief
               /\ deltaSummary' =
                     Some(generateDeltaSummary(prevBrief[1],
                                               viewCall.currentBrief[1]))
          ELSE /\ compareBrief' = None
               /\ deltaSummary' = None
    /\ isCompareMode' = TRUE
    /\ viewMode' = "executive"
    /\ showPreview' = TRUE
    /\ viewCall' = viewDone
    /\ UNCHANGED <<previewBrief, previewSyllabus, appVars, notPreviewVars>>

\* a getBestBrief of viewBrief throws: the catch block shows the error
ViewFails ==
    /\ viewCall.pc \in {"current", "previous"}
    /\ viewCall' = viewDone
    /\ UNCHANGED <<previewBrief, compareBrief, showPreview, isCompareMode,
                   deltaSummary, previewSyllabus, viewMode, appVars,
                   notPreviewVars>>

\* closePreview()
ClosePreview ==
    /\ showPreview \/ isCompareMode \/ compareBrief # None \/ deltaSummary # None
    /\ showPreview' = FALSE
    /\ isCompareMode' = FALSE
    /\ compareBrief' = None
    /\ deltaSummary' = None
    /\ UNCHANGED <<previewBrief, previewSyllabus, viewMode, viewCall, appVars,
                   notPreviewVars>>

\* setViewMode(mode)
SetViewMode(mode) ==
    /\ mode # viewMode
    /\ viewMode' = mode
    /\ UNCHANGED <<previewBrief, compareBrief, showPreview, isCompareMode,
                   deltaSummary, previewSyllabus, viewCall, appVars,
                   notPreviewVars>>

\* the page opens on a store of earlier briefs
PreviewInit ==
    /\ InitGen
    /\ InitSim
    /\ InitLlm
    /\ InitHook
    /\ InitPreview
    /\ selectedSession = None
    /\ memory \in Stores

PreviewNext ==
    \/ \E session \in Sessions : SelectSession(session)
    \/ \E compare \in BOOLEAN : ViewBrief(compare)
    \/ CurrentBriefFound
    \/ PreviousBriefFound
    \/ ViewFails
    \/ ClosePreview
    \/ \E mode \in {"executive", "full"} : SetViewMode(mode)

PreviewSpec == PreviewInit /\ [][PreviewNext]_vars

\* ------------------------------------------------------------------------
\* Properties of generateBrief (retry-loop version)
\* ------------------------------------------------------------------------

\* the generation call i has returned text
returnedText(i) == attempts[i].outcome = "text"

\* the generation call i returned text that failed validation
failedValidation(i) == returnedText(i) /\ attempts[i].errors # <<>>

\* the generation call i returned text that passed every gate
passedValidation(i) == returnedText(i) /\ attempts[i].errors = <<>>

\* the content of the user message sent with generation call i
userContent(i) == attempts[i].conversation[2].content

\* C1: no invocation ever issues more than 3 generation calls (initial + 2
\* retries); against a service whose every output fails validation the
\* invocation returns having issued exactly 3; and it terminates: every
\* completion of an outstanding call either makes generateBrief return or
\* uses up one of the 2 retries.
C1_ExactlyThreeCalls ==
    /\ [](/\ Len(attempts) <= 3
          /\ (pc = "returned" /\ \A i \in DOMAIN attempts : failedValidation(i))
                => Len(attempts) = 3)
    /\ [][pc = "awaiting" =>
            \/ pc' = "returned"
            \/ /\ pc' = "awaiting"
               /\ retryCount' = retryCount + 1
               /\ retryCount' <= 2
               /\ Len(attempts') = Len(attempts) + 1]_vars

C1_Witness ==
    /\ pc = "returned"
    /\ Len(attempts) = 3
    /\ \A i \in DOMAIN attempts : failedValidation(i)

\* C2: the returned retryCount never exceeds maxRetries = 2, and is exactly
\* 2 when the budget was exhausted by validation failures.
C2_RetryCountWithinBudget ==
    result # None =>
        /\ result[1].usage.retryCount <= 2
        /\ (/\ Len(attempts) = 3
            /\ \A i \in DOMAIN attempts : failedValidation(i))
              => result[1].usage.retryCount = 2

\* C3: when the first output fails a gate and the second passes every gate,
\* generateBrief has returned after exactly 2 calls with retryCount = 1 and
\* the second output as its text.
C3_SecondAttemptAccepted ==
    (/\ Len(attempts) >= 2
     /\ failedValidation(1)
     /\ passedValidation(2))
    => /\ pc = "returned"
       /\ Len(attempts) = 2
       /\ result # None
       /\ result[1].usage.retryCount = 1
       /\ result[1].markdown = attempts[2].text
       /\ result[1].moves = extractMoves(attempts[2].text)

C3_Witness ==
    /\ Len(attempts) = 2
    /\ failedValidation(1)
    /\ passedValidation(2)
    /\ pc = "returned"

\* C4: a generation call that throws is never retried: it is the last call
\* of its invocation and the failure reaches the caller as an exception, not
\* as a returned result.
C4_TransportFailureNotRetried ==
    \A i \in DOMAIN attempts :
        attempts[i].outcome = "threw" =>
            /\ i = Len(attempts)
            /\ thrown # None
            /\ result = None

\* C5: every field of the returned result is derived from the text of the
\* last generation call of the invocation.
C5_ResultReflectsLastAttempt ==
    result # None =>
        LET last == attempts[Len(attempts)]
            highlightsMatch == extractHighlights(last.text)
        IN  /\ last.outcome = "text"
            /\ result[1].markdown = last.text
            /\ result[1].moves = extractMoves(last.text)
            /\ result[1].structuredData = extractStructuredData(last.text)
            /\ result[1].memoryHighlights =
                  IF highlightsMatch # None THEN highlightsMatch[1] ELSE <<>>
            /\ result[1].similarityReport =
                  IF similarityApplies(enableSimilarityCheck, lastBrief)
                  THEN Some(similarityGateReport(extractMoves(last.text), lastBrief))
                  ELSE None

\* C6: an attempt with zero validation errors ends the invocation: it is the
\* last call, generateBrief has returned it, and retryCount (the local and
\* the returned one) is the number of failed attempts before it.
C6_AcceptedAttemptStops ==
    \A i \in DOMAIN attempts :
        passedValidation(i) =>
            LET failedBefore ==
                    Cardinality({j \in 1..(i - 1) : ~passedValidation(j)})
            IN  /\ i = Len(attempts)
                /\ pc = "returned"
                /\ retryCount = failedBefore
                /\ result # None
                /\ result[1].usage.retryCount = failedBefore
                /\ result[1].markdown = attempts[i].text
                /\ result[1].moves = extractMoves(attempts[i].text)

C6_Witness ==
    /\ Len(attempts) = 3
    /\ failedValidation(1)
    /\ failedValidation(2)
    /\ passedValidation(3)
    /\ result # None
    /\ result[1].usage.retryCount = 2

\* C7: when attempt i failed validation and attempt i+1 was issued, the user
\* message sent with attempt i+1 ends with a feedback segment that lists
\* every validation error of attempt i.
C7_FeedbackBeforeNextAttempt ==
    \A i \in 1..(Len(attempts) - 1) :
        failedValidation(i) =>
            LET content == userContent(i + 1)
                diagnostic == content[Len(content)]
            IN  /\ Len(content) = i + 1
                /\ diagnostic.kind = "feedback"
                /\ diagnostic.body.type = "validation"
                /\ \A k \in DOMAIN attempts[i].errors :
                      \E m \in DOMAIN diagnostic.body.errors :
                          diagnostic.body.errors[m] = attempts[i].errors[k]

C7_Witness ==
    /\ Len(attempts) = 3
    /\ failedValidation(1)
    /\ Len(attempts[1].errors) >= 2
    /\ failedValidation(2)
    /\ attempts[2].errors # attempts[1].errors

\* C8: on every retry the conversation sent with attempt i+1 contains the
\* raw text of the failed attempt i.
C8_RawTextInConversation ==
    \A i \in 1..(Len(attempts) - 1) :
        failedValidation(i) =>
            \E m \in DOMAIN attempts[i + 1].conversation :
                \E s \in DOMAIN attempts[i + 1].conversation[m].content :
                    LET segment == attempts[i + 1].conversation[m].content[s]
                    IN  /\ segment.kind = "markdown"
                        /\ segment.body = attempts[i].text

\* the attempt i reported the error of the given gate
reported(i, gate) ==
    \E k \in DOMAIN attempts[i].errors : attempts[i].errors[k].gate = gate

violatedGates(text) ==
    LET mv == extractMoves(text)
        sd == extractStructuredData(text)
    IN  {g \in {"moveCount", "framework", "updateLine", "duplicateSection",
                "similarity"} :
            \/ g = "moveCount" /\ Len(mv) # 3
            \/ /\ g = "framework"
               /\ frameworkNames # <<>>
               /\ \E k \in DOMAIN sd.frameworkByMove :
                     sd.frameworkByMove[k] \notin Range(frameworkNames)
            \/ g = "updateLine" /\ lastBrief # None /\ updateLineCount(text) > 1
            \/ g = "duplicateSection" /\ highlightSectionCount(text) > 1
            \/ /\ g = "similarity"
               /\ similarityApplies(enableSimilarityCheck, lastBrief)
               /\ ~similarityGateReport(mv, lastBrief).pass}

\* the attempt i was accepted: generateBrief returned it without counting
\* it as a failure
accepted(i) ==
    /\ i = Len(attempts)
    /\ pc = "returned"
    /\ result # None
    /\ result[1].usage.retryCount = i - 1

\* C10: the gates are not short-circuited: the error list of an attempt has
\* one error for each gate its text violates (k violated gates, k errors),
\* and the attempt is accepted iff the list is empty.
C10_AllGatesEvaluated ==
    \A i \in DOMAIN attempts :
        returnedText(i) =>
            /\ {attempts[i].errors[k].gate : k \in DOMAIN attempts[i].errors}
                  = violatedGates(attempts[i].text)
            /\ Len(attempts[i].errors) = Cardinality(violatedGates(attempts[i].text))
            /\ accepted(i) <=> attempts[i].errors = <<>>

C10_Witness ==
    \E i \in DOMAIN attempts :
        /\ returnedText(i)
        /\ Len(attempts[i].errors) = 4
        /\ i < Len(attempts)

\* C11: the move-count gate reports an error iff the number of move lines
\* of the attempt's text differs from 3; a text with exactly 3 move lines
\* and no update line gets neither the move-count error nor the
\* duplicate-update-line error.
C11_ItemCountGate ==
    \A i \in DOMAIN attempts :
        returnedText(i) =>
            LET moveLines == Len(linesOfKind(attempts[i].text, "move"))
            IN  /\ reported(i, "moveCount") <=> moveLines # 3
                /\ (moveLines = 3 /\ updateLineCount(attempts[i].text) = 0)
                      => /\ ~reported(i, "moveCount")
                         /\ ~reported(i, "updateLine")

C11_Witness ==
    /\ Len(attempts) = 2
    /\ returnedText(1)
    /\ reported(1, "moveCount")
    /\ returnedText(2)
    /\ Len(linesOfKind(attempts[2].text, "move")) = 3
    /\ updateLineCount(attempts[2].text) = 0
    /\ lastBrief # None

\* the attempt i reported framework f as invalid
reportedFramework(i, f) ==
    \E k \in DOMAIN attempts[i].errors :
        /\ attempts[i].errors[k].gate = "framework"
        /\ f \in Range(attempts[i].errors[k].names)

\* C12 as stated: every framework tag of a move line that is not in the
\* allowed list is reported in an invalid-framework error, for every
\* allowed list, the empty one included.
C12_InvalidFrameworkAlways ==
    \A i \in DOMAIN attempts :
        returnedText(i) =>
            LET tags == extractStructuredData(attempts[i].text).frameworkByMove
            IN  \A k \in DOMAIN tags :
                    tags[k] \notin Range(frameworkNames)
                        => reportedFramework(i, tags[k])

\* C12 amended: when the allowed list is not empty, every framework tag
\* that is not in it is reported in an invalid-framework error; when the
\* allowed list is empty the gate is skipped and reports nothing.
C12_InvalidFrameworkNonEmptyList ==
    \A i \in DOMAIN attempts :
        returnedText(i) =>
            LET tags == extractStructuredData(attempts[i].text).frameworkByMove
            IN  /\ frameworkNames # <<>> =>
                      \A k \in DOMAIN tags :
                          tags[k] \notin Range(frameworkNames)
                              <=> reportedFramework(i, tags[k])
                /\ frameworkNames = <<>> => ~reported(i, "framework")

C12_Witness ==
    /\ frameworkNames # <<>>
    /\ \E i \in DOMAIN attempts :
          /\ returnedText(i)
          /\ reportedFramework(i, F_BlueOcean)
          /\ ~reportedFramework(i, F_Swot)

\* the conditions under which the similarity gate is meant to run
noveltyRequested ==
    /\ enableSimilarityCheck
    /\ lastBrief # None
    /\ lastBrief[1].payload.moves # None

\* C13: without the similarity check enabled and a prior brief with moves,
\* no attempt gets a similarity error and the returned similarityReport is
\* absent; otherwise an attempt gets the similarity error iff its report
\* does not pass.
C13_NoveltyGateConditional ==
    /\ \A i \in DOMAIN attempts :
          returnedText(i) =>
              IF noveltyRequested
              THEN reported(i, "similarity") <=>
                      ~checkNoRepeats(extractMoves(attempts[i].text),
                                      lastBrief[1].payload.moves[1]).pass
              ELSE ~reported(i, "similarity")
    /\ (result # None /\ ~noveltyRequested)
          => result[1].similarityReport = None

C13_Witness ==
    /\ ~enableSimilarityCheck
    /\ lastBrief # None
    /\ lastBrief[1].payload.moves # None
    /\ result # None
    /\ result[1].markdown = D_Repeat
    /\ result[1].usage.retryCount = 0
    /\ result[1].similarityReport = None

\* ------------------------------------------------------------------------
\* Properties of the similarity module
\* ------------------------------------------------------------------------

\* two scores are the same number
sameScore(x, y) == x[1] * y[2] = y[1] * x[2]

\* the normalized string of a title
normString(title) == joinWith(normalizeTokens(title), <<" ">>)

\* C14: scoring (a, b) gives the same score and the same reason as scoring
\* (b, a), and exchanging the two lists of the batch comparison leaves pass
\* and maxScore unchanged.
C14_ScoringSymmetric ==
    (simReport # None /\ swappedReport # None) =>
        /\ \A i \in DOMAIN candidates, j \in DOMAIN references :
              LET ab == scorePair(candidates[i], references[j])
                  ba == scorePair(references[j], candidates[i])
              IN  /\ sameScore(ab.score, ba.score)
                  /\ ab.reason = ba.reason
        /\ simReport[1].pass = swappedReport[1].pass
        /\ sameScore(simReport[1].maxScore, swappedReport[1].maxScore)

C14_Witness ==
    /\ simReport # None
    /\ swappedReport # None
    /\ Len(candidates) # Len(references)
    /\ simReport[1].pass
    /\ simReport[1].maxScore[1] > 0
    /\ simReport[1].maxScore[1] < simReport[1].maxScore[2]

\* C15 as stated: for every title, normalizing the space-joined tokens of
\* normalizeTokens gives the same tokens again.
C15_NormalizationIdempotent ==
    normalized # None =>
        \A i \in DOMAIN normalized[1].titles :
            normalized[1].twice[i] = normalized[1].once[i]

\* a token a second normalization leaves alone
stableToken(t) ==
    /\ t # <<>>
    /\ t \notin STOPWORDS
    /\ ~endsWith(t, <<"i","n","g">>)
    /\ ~endsWith(t, <<"e","d">>)
    /\ ~(endsWith(t, <<"s">>) /\ ~endsWith(t, <<"s","s">>))

\* C15 amended: normalizing the space-joined tokens of normalizeTokens(x)
\* gives the same tokens again exactly when every token of
\* normalizeTokens(x) is non-empty, is not a stopword and ends in none of
\* "ing", "ed", "s" (other than "ss").
C15_IdempotentOnStableTokens ==
    normalized # None =>
        \A i \in DOMAIN normalized[1].titles :
            (normalized[1].twice[i] = normalized[1].once[i])
                <=> \A k \in DOMAIN normalized[1].once[i] :
                        stableToken(normalized[1].once[i][k])

C15_Witness ==
    /\ normalized # None
    /\ \E i \in DOMAIN normalized[1].titles :
          /\ Len(normalized[1].once[i]) >= 2
          /\ normalized[1].twice[i] = normalized[1].once[i]
    /\ \E i \in DOMAIN normalized[1].titles :
          /\ normalized[1].once[i] = << <<"k","i","n","g">> >>
          /\ normalized[1].twice[i] = << <<"k">> >>

\* C16: two titles with equal normalized strings (both empty included) are
\* scored 1.0 with reason "exact", the pair is in the report and the report
\* fails; the bigram path does not take over.
C16_ExactMatch ==
    simReport # None =>
        \A i \in DOMAIN candidates, j \in DOMAIN references :
            normString(candidates[i]) = normString(references[j]) =>
                /\ scorePair(candidates[i], references[j])
                       = [score |-> ScoreOne, reason |-> "exact"]
                /\ ~simReport[1].pass
                /\ \E k \in DOMAIN simReport[1].pairs :
                      simReport[1].pairs[k]
                          = [newMove |-> candidates[i],
                             prevMove |-> references[j],
                             score |-> ScoreOne, reason |-> "exact"]

C16_Witness ==
    /\ simReport # None
    /\ candidates = <<T_The>>
    /\ references = <<T_OfA>>
    /\ normalizeTokens(T_The) = <<>>
    /\ ~simReport[1].pass
    /\ simReport[1].pairs[1].reason = "exact"

\* C17: comparing "Legal requires model risk review before pilot" with the
\* prior title "Legal gating: model risk assessment required" gives
\* pass = false, a first pair with reason "high_similarity" and
\* maxScore >= 0.5.
C17_CloseParaphraseFlagged ==
    (/\ simReport # None
     /\ candidates = <<T_LegalReview>>
     /\ references = <<T_LegalGating>>)
        => /\ ~simReport[1].pass
           /\ simReport[1].pairs # <<>>
           /\ simReport[1].pairs[1].reason = "high_similarity"
           /\ ScoreGeq(simReport[1].maxScore, <<1, 2>>)

\* C18: "The quick brown fox jumps" and "Quick brown fox jumping" normalize
\* to the same sequence of 4 tokens, so comparing them reports the pair
\* with reason "exact" and the report fails.
C18_StemmedTitlesExact ==
    (/\ simReport # None
     /\ candidates = <<T_FoxJumping>>
     /\ references = <<T_FoxJumps>>)
        => /\ normalizeTokens(T_FoxJumps)
                = << <<"q","u","i","c","k">>, <<"b","r","o","w","n">>,
                     <<"f","o","x">>, <<"j","u","m","p">> >>
           /\ normalizeTokens(T_FoxJumping) = normalizeTokens(T_FoxJumps)
           /\ ~simReport[1].pass
           /\ simReport[1].pairs
                = << [newMove |-> T_FoxJumping, prevMove |-> T_FoxJumps,
                      score |-> ScoreOne, reason |-> "exact"] >>

C18_Witness ==
    /\ simReport # None
    /\ candidates = <<T_FoxJumping>>
    /\ references = <<T_FoxJumps>>
    /\ Len(simReport[1].pairs) = 1

\* C19: two titles whose normalized strings differ and whose bigram sets
\* are disjoint and not both empty get no reason and are not in pairs; in
\* particular "Pilot timeline forces narrower MVP scope" against "Legal
\* gating: model risk assessment required" gives pass = true and no pairs.
C19_DisjointNotFlagged ==
    simReport # None =>
        /\ \A i \in DOMAIN candidates, j \in DOMAIN references :
              LET bigramsNew  == getBigrams(normalizeTokens(candidates[i]))
                  bigramsPrev == getBigrams(normalizeTokens(references[j]))
              IN  (/\ normString(candidates[i]) # normString(references[j])
                   /\ bigramsNew \cap bigramsPrev = {}
                   /\ (bigramsNew # {} \/ bigramsPrev # {}))
                      => /\ scorePair(candidates[i], references[j]).reason
                               = "none"
                         /\ \A k \in DOMAIN simReport[1].pairs :
                               ~(/\ simReport[1].pairs[k].newMove = candidates[i]
                                 /\ simReport[1].pairs[k].prevMove = references[j])
        /\ (candidates = <<T_PilotTimeline>> /\ references = <<T_LegalGating>>)
              => /\ simReport[1].pass
                 /\ simReport[1].pairs = <<>>

C19_Witness ==
    /\ simReport # None
    /\ candidates = <<T_PilotTimeline>>
    /\ references = <<T_LegalGating>>
    /\ simReport[1].pass
    /\ getBigrams(normalizeTokens(T_PilotTimeline))
          \cap getBigrams(normalizeTokens(T_LegalGating)) = {}

\* every (candidate, reference) pair, candidates first and, for each
\* candidate, the references in their order
pairsInLoopOrder ==
    LET m == Len(references)
    IN  [k \in 1..(Len(candidates) * m) |->
            [newMove  |-> candidates[((k - 1) \div m) + 1],
             prevMove |-> references[((k - 1) % m) + 1]]]

\* those of them that get a reason, with their score and reason
flaggedInLoopOrder ==
    LET flagged == SelectSeq(pairsInLoopOrder,
                     LAMBDA p : scorePair(p.newMove, p.prevMove).reason # "none")
    IN  [k \in DOMAIN flagged |->
            [newMove  |-> flagged[k].newMove,
             prevMove |-> flagged[k].prevMove,
             score    |-> scorePair(flagged[k].newMove, flagged[k].prevMove).score,
             reason   |-> scorePair(flagged[k].newMove, flagged[k].prevMove).reason]]

\* C20: in a returned report pass is false iff pairs is not empty, and
\* pairs lists exactly the (candidate, reference) pairs that got a reason,
\* candidates in the outer loop and references in the inner loop.
C20_PassIffNoPairs ==
    simReport # None =>
        /\ simReport[1].pass <=> simReport[1].pairs = <<>>
        /\ simReport[1].pairs = flaggedInLoopOrder

C20_Witness ==
    /\ simReport # None
    /\ Len(candidates) = 2
    /\ Len(references) = 2
    /\ Len(simReport[1].pairs) = 2
    /\ simReport[1].pairs[1].newMove # simReport[1].pairs[2].newMove
    /\ simReport[1].pairs[1].prevMove # simReport[1].pairs[2].prevMove
    /\ ~simReport[1].pass

\* the scores of all (candidate, reference) pairs
allScores ==
    {scorePair(candidates[i], references[j]).score :
        i \in DOMAIN candidates, j \in DOMAIN references}

\* a score is a number between 0 and 1
unitScore(x) == x[2] > 0 /\ 0 <= x[1] /\ x[1] <= x[2]

\* C21: maxScore of a report is the largest score over all (candidate,
\* reference) pairs, flagged or not, and 0 when there is no pair; every
\* recorded score is between 0 and 1.
C21_MaxScoreOverAllPairs ==
    simReport # None =>
        /\ \A x \in allScores : ScoreGeq(simReport[1].maxScore, x)
        /\ IF allScores = {}
           THEN sameScore(simReport[1].maxScore, ScoreZero)
           ELSE \E x \in allScores : sameScore(simReport[1].maxScore, x)
        /\ unitScore(simReport[1].maxScore)
        /\ \A k \in DOMAIN simReport[1].pairs :
              unitScore(simReport[1].pairs[k].score)

C21_Witness ==
    /\ simReport # None
    /\ Len(candidates) * Len(references) >= 2
    /\ simReport[1].pairs = <<>>
    /\ simReport[1].maxScore[1] > 0
    /\ \E x \in allScores : ScoreGt(simReport[1].maxScore, x)

\* the pair (newMove, prevMove) is in the report with reason "high_similarity"
listedAsSimilar(newMove, prevMove) ==
    \E k \in DOMAIN simReport[1].pairs :
        /\ simReport[1].pairs[k].newMove = newMove
        /\ simReport[1].pairs[k].prevMove = prevMove
        /\ simReport[1].pairs[k].reason = "high_similarity"

\* C22: for a pair with different normalized strings (and a bigram to
\* compare) the score is |intersection| / |union| of the bigram sets, the
\* threshold is 0.50 when either token sequence has at most 6 tokens and
\* 0.60 otherwise, and the pair is flagged "high_similarity" iff the score
\* is at least the threshold.
C22_ThresholdRule ==
    simReport # None =>
        \A i \in DOMAIN candidates, j \in DOMAIN references :
            LET normNew  == normalizeTokens(candidates[i])
                normPrev == normalizeTokens(references[j])
                shared   == getBigrams(normNew) \cap getBigrams(normPrev)
                either   == getBigrams(normNew) \cup getBigrams(normPrev)
                ratio    == <<Cardinality(shared), Cardinality(either)>>
                limit    == IF Len(normNew) <= 6 \/ Len(normPrev) <= 6
                            THEN <<50, 100>> ELSE <<60, 100>>
                scored   == scorePair(candidates[i], references[j])
            IN  (normString(candidates[i]) # normString(references[j])
                    /\ either # {})
                  => /\ sameScore(scored.score, ratio)
                     /\ scored.reason = "high_similarity"
                           <=> ratio[1] * limit[2] >= limit[1] * ratio[2]
                     /\ scored.reason \in {"high_similarity", "none"}
                     /\ listedAsSimilar(candidates[i], references[j])
                           <=> ratio[1] * limit[2] >= limit[1] * ratio[2]

C22_Witness ==
    /\ simReport # None
    /\ candidates = <<T_LaunchDate, T_AuditBlock>>
    /\ references = <<T_ReviewDate>>
    /\ sameScore(scorePair(T_LaunchDate, T_ReviewDate).score, <<1, 2>>)
    /\ sameScore(scorePair(T_AuditBlock, T_ReviewDate).score, <<1, 2>>)
    /\ ~listedAsSimilar(T_LaunchDate, T_ReviewDate)
    /\ listedAsSimilar(T_AuditBlock, T_ReviewDate)

\* C27: a pair reported with reason "high_similarity" shares at least one
\* normalized bigram; two titles that normalize to one token each, and to
\* different tokens, are not reported.
C27_FlaggedPairsShareBigram ==
    simReport # None =>
        \A k \in DOMAIN simReport[1].pairs :
            simReport[1].pairs[k].reason = "high_similarity" =>
                getBigrams(normalizeTokens(simReport[1].pairs[k].newMove))
                    \cap getBigrams(normalizeTokens(simReport[1].pairs[k].prevMove))
                    # {}

\* ------------------------------------------------------------------------
\* Further properties of generateBrief (retry-loop version)
\* ------------------------------------------------------------------------

\* the generation calls that have neither returned nor thrown
outstandingCalls == {i \in DOMAIN attempts : attempts[i].outcome = "pending"}

\* C23: at most one generation call is outstanding at any time, and it is
\* the latest one; the call of the next attempt is issued only by the step
\* in which the previous call has returned or thrown and its text has been
\* extracted and validated.
C23_OneCallOutstanding ==
    /\ [](/\ Cardinality(outstandingCalls) <= 1
          /\ outstandingCalls \subseteq {Len(attempts)}
          /\ (outstandingCalls # {}) <=> (pc = "awaiting"))
    /\ [][(Len(attempts) > 0 /\ Len(attempts') = Len(attempts) + 1) =>
            LET n == Len(attempts)
            IN  /\ attempts[n].outcome = "pending"
                /\ attempts'[n].outcome \in {"text", "threw"}
                /\ attempts'[n].outcome = "text" =>
                      /\ moves' = extractMoves(attempts'[n].text)
                      /\ structuredData' = extractStructuredData(attempts'[n].text)
                      /\ attempts'[n].errors # <<>>
                /\ attempts'[n + 1].outcome = "pending"]_vars

C23_Witness ==
    /\ Len(attempts) = 3
    /\ attempts[1].outcome = "text"
    /\ attempts[2].outcome = "threw"
    /\ outstandingCalls = {3}

\* the titles of the previous brief
previousTitles == Range(lastBrief[1].payload.moves[1])

\* C24: in every flagged pair of the similarity report of a result, newMove
\* is a move extracted from the returned text and prevMove is a move of the
\* previous brief; the feedback of a rejected attempt names the attempt's
\* move first and the previous brief's move second.
C24_PairRoles ==
    /\ (result # None /\ result[1].similarityReport # None) =>
          \A k \in DOMAIN result[1].similarityReport[1].pairs :
              /\ result[1].similarityReport[1].pairs[k].newMove
                    \in Range(result[1].moves)
              /\ result[1].similarityReport[1].pairs[k].prevMove
                    \in previousTitles
    /\ \A i \in DOMAIN attempts :
          \A e \in DOMAIN attempts[i].errors :
              attempts[i].errors[e].gate = "similarity" =>
                  \A k \in DOMAIN attempts[i].errors[e].pairs :
                      /\ attempts[i].errors[e].pairs[k][1]
                            \in Range(extractMoves(attempts[i].text))
                      /\ attempts[i].errors[e].pairs[k][2] \in previousTitles

\* the similarity errors of attempt i
noveltyErrors(i) ==
    SelectSeq(attempts[i].errors, LAMBDA e : e.gate = "similarity")

\* the report gate 6 computes for attempt i (the gate applies)
attemptReport(i) ==
    checkNoRepeats(extractMoves(attempts[i].text), lastBrief[1].payload.moves[1])

\* C25 as stated: an attempt whose similarity report has k flagged pairs
\* has k similarity errors in its error list.
C25_OneErrorPerPair ==
    \A i \in DOMAIN attempts :
        (returnedText(i) /\ noveltyRequested) =>
            Len(noveltyErrors(i)) = Len(attemptReport(i).pairs)

\* C25 amended: an attempt whose similarity report fails has exactly one
\* similarity error, which names the newMove and prevMove of every flagged
\* pair of the report in the report's order; an attempt whose report passes
\* has none.
C25_OneErrorNamingAllPairs ==
    \A i \in DOMAIN attempts :
        (returnedText(i) /\ noveltyRequested) =>
            LET report == attemptReport(i)
            IN  IF report.pass
                THEN noveltyErrors(i) = <<>>
                ELSE /\ Len(noveltyErrors(i)) = 1
                     /\ noveltyErrors(i)[1].pairs =
                           [k \in DOMAIN report.pairs |->
                               <<report.pairs[k].newMove,
                                 report.pairs[k].prevMove>>]

C25_Witness ==
    \E i \in DOMAIN attempts :
        /\ returnedText(i)
        /\ noveltyRequested
        /\ Len(noveltyErrors(i)) = 1
        /\ Len(noveltyErrors(i)[1].pairs) = 2

\* ------------------------------------------------------------------------
\* Properties of generateBrief of llm.ts
\* ------------------------------------------------------------------------

\* the similarity check is enabled, the mode is personalized and the
\* previous brief has moves
llmCheckRequested ==
    /\ llmParams # None
    /\ llmParams[1].enableSimilarityCheck
    /\ llmParams[1].mode = "personalized"
    /\ llmParams[1].lastBrief # None
    /\ llmParams[1].lastBrief[1].payload.moves # None

\* the report of the moves of the text generation call i returned
llmReportOfCall(i) ==
    checkNoRepeats(llmParams[1].lastBrief[1].payload.moves[1],
                   extractMoves(contentOf(llmCalls[i].text)))

\* C26: a second generation call is issued only when the similarity check
\* was requested and failed on the first output; the second output never
\* leads to a third call; an invocation makes at most 2 calls and returns
\* retryCount 0 or 1 (the number of retries), with a similarityReport that
\* is the report of the returned moves.
C26_AtMostOneRetry ==
    /\ Len(llmCalls) <= 2
    /\ Len(llmCalls) = 2 =>
          /\ llmCheckRequested
          /\ llmCalls[1].outcome = "text"
          /\ ~llmReportOfCall(1).pass
    /\ (Len(llmCalls) = 2 /\ llmCalls[2].outcome = "text") => llmPc = "returned"
    /\ llmResult # None =>
          /\ llmResult[1].usage.retryCount \in {0, 1}
          /\ llmResult[1].usage.retryCount = Len(llmCalls) - 1
          /\ llmResult[1].moves
                = extractMoves(contentOf(llmCalls[Len(llmCalls)].text))
          /\ llmResult[1].similarityReport
                = IF llmCheckRequested
                  THEN Some(checkNoRepeats(
                           llmParams[1].lastBrief[1].payload.moves[1],
                           llmResult[1].moves))
                  ELSE None

C26_Witness ==
    /\ llmResult # None
    /\ Len(llmCalls) = 2
    /\ llmResult[1].usage.retryCount = 1
    /\ ~llmResult[1].similarityReport[1].pass
    /\ llmResult[1].markdown = D_Repeat


\* ------------------------------------------------------------------------
\* Properties of useBriefGeneration
\* ------------------------------------------------------------------------

\* the generate() call k has started and has not ended
inFlight(k) == generateCalls[k].pc \in InFlight

\* C28: isGenerating is true whenever at least one generate() call is in
\* flight, whatever the interleaving of overlapping calls, and false once
\* none is in flight
C28_GeneratingWhileInFlight ==
    isGenerating <=> (\E k \in Calls : inFlight(k))

\* the call k ended because a memory lookup or generateBrief threw
failedEarly(k) ==
    /\ generateCalls[k].pc = "failed"
    /\ generateCalls[k].generated = None

\* no other generate() call was ever started
onlyCall(k) ==
    \A j \in Calls \ {k} : generateCalls[j].pc \in {"idle", "refused"}

\* C29: a generate() call in which a memory lookup or generateBrief throws
\* adds no brief_output record, does not call onBriefGenerated, does not
\* set the result (it is null at the end of a call that ran alone) and ends
\* with isGenerating false; a record is added only by the step in which
\* generateBrief has returned and the result is set to what it returned
C29_FailedGenerateLeavesNoTrace ==
    /\ [](\A k \in Calls :
            failedEarly(k) =>
               /\ \A i \in DOMAIN memory : memory[i].by # k
               /\ \A i \in DOMAIN notified : notified[i].by # k
               /\ hookResult # None => hookResult[1].call # k
               /\ onlyCall(k) => (hookResult = None /\ ~isGenerating))
    /\ [][\A k \in Calls :
            (inFlight(k) /\ failedEarly(k)') =>
               /\ isGenerating' = FALSE
               /\ memory' = memory
               /\ notified' = notified
               /\ hookResult' = hookResult]_vars
    /\ [][memory' # memory =>
            \E k \in Calls :
               /\ generateCalls[k].pc = "generating"
               /\ generateCalls'[k].generated # None
               /\ hookResult' = generateCalls'[k].generated
               /\ Len(memory') = Len(memory) + 1
               /\ Tail(memory') = memory
               /\ Head(memory').by = k
               /\ Head(memory').moves = hookResult'[1].moves]_vars

\* one call has failed before generateBrief returned, another has stored
\* its brief and ended
C29_Witness ==
    \E k, j \in Calls :
       /\ failedEarly(k)
       /\ generateCalls[j].pc = "done"
       /\ memory # <<>>
       /\ notified # <<>>

\* ------------------------------------------------------------------------
\* Properties of useBriefPreview
\* ------------------------------------------------------------------------

\* the best brief of the session just before the session of the brief shown
precedingBest ==
    LET prev == previousSession(previewBrief[1].session_id)
    IN IF prev = None THEN None ELSE getBestBrief(memory, prev[1])

\* C30: after any sequence of viewBrief and closePreview calls, whenever
\* the preview is shown in compare mode, compareBrief is null or the best
\* brief of the session just before previewBrief's session, and
\* deltaSummary is non-null exactly when compareBrief is
C30_CompareBriefPrecedes ==
    (viewCall.pc = "idle" /\ showPreview /\ isCompareMode) =>
       /\ compareBrief # None =>
             (previewBrief # None /\ compareBrief = precedingBest)
       /\ (deltaSummary # None) <=> (compareBrief # None)

====
